---- MODULE Spec2Model ----
(***************************************************************************)
(* Model of app/modules/sdp_actions.py: the upstream-resolution layer of   *)
(* the ServiceDesk Plus bridge.  This part covers list_my_tickets: the     *)
(* cascade V0..V3 of upstream calls and the client-side filter, sort and   *)
(* pagination of V3.                                                       *)
(*                                                                         *)
(* Strings are sequences of one-character strings.  JSON values whose      *)
(* shape the code inspects are tagged records with the same fields in      *)
(* every variant, so that any two of them can be compared.                 *)
(***************************************************************************)
EXTENDS Integers, Sequences, FiniteSets, TLC

\* ------------------------------------------------------------------ bounds
\* longest list of records an upstream response carries
MaxItems == 2
\* largest page asked for (the HTTP layer enforces page >= 1)
MaxPage == 2
\* largest page_size asked for (the HTTP layer enforces 1 <= page_size <= 200)
MaxPageSize == 2

\* most threads calling log_exec at once
MaxThreads == 2
\* most log_exec calls of one run
MaxLogCalls == 3
\* most requests the messaging endpoints handle in one run
MaxRequests == 3

\* raw_row_count = max(page_size * 5, 200)
RawRowCountMin == 200
RawRowCountFactor == 5

\* ----------------------------------------------------------------- strings
Min(a, b) == IF a <= b THEN a ELSE b
Max(a, b) == IF a >= b THEN a ELSE b

\* str.lower() on one character of the alphabet used here
LowerChar(c) ==
    IF c = "A" THEN "a" ELSE IF c = "B" THEN "b"
    ELSE IF c = "E" THEN "e" ELSE IF c = "L" THEN "l" ELSE IF c = "M" THEN "m"
    ELSE IF c = "P" THEN "p" ELSE IF c = "T" THEN "t" ELSE c

\* str.lower()
Lower(s) == [i \in 1..Len(s) |-> LowerChar(s[i])]

IsSpace(c) == c = " "

RECURSIVE LStrip(_)
LStrip(s) == IF s # <<>> /\ IsSpace(Head(s)) THEN LStrip(Tail(s)) ELSE s

RECURSIVE RStrip(_)
RStrip(s) ==
    IF s # <<>> /\ IsSpace(s[Len(s)]) THEN RStrip(SubSeq(s, 1, Len(s) - 1)) ELSE s

\* str.strip()
Strip(s) == RStrip(LStrip(s))

\* ------------------------------------------------------------- JSON values
\* One element of a list found in an upstream response.
\*   isdict : the element is a mapping
\*   req    : its "requester": "absent" (missing or falsy), "mapping", "other"
\*            (a truthy value that is no mapping)
\*   emailk : requester["email_id"]: "absent" (missing or falsy), "str", "other"
\*   email  : the string when emailk = "str"
\*   ctk    : its "created_time": "absent" (missing or falsy), "mapping", "other"
\*   valk   : created_time["value"]: "absent" (missing or falsy), "int", "numstr"
\*            (a string int() parses), "badstr" (a string int() rejects), "float"
\*   val    : the integer (int, numstr) or the number of halves (float)
\*   id     : tells the sample records apart
Record(id, email, valk, val) ==
    [isdict |-> TRUE, req |-> "mapping", emailk |-> "str", email |-> email,
     ctk |-> "mapping", valk |-> valk, val |-> val, id |-> id]

RecordNoCreated(id, email, ctk) ==
    [isdict |-> TRUE, req |-> "mapping", emailk |-> "str", email |-> email,
     ctk |-> ctk, valk |-> "absent", val |-> 0, id |-> id]

RecordNoRequester(id, req, valk, val) ==
    [isdict |-> TRUE, req |-> req, emailk |-> "absent", email |-> <<>>,
     ctk |-> "mapping", valk |-> valk, val |-> val, id |-> id]

NotARecord(id) ==
    [isdict |-> FALSE, req |-> "absent", emailk |-> "absent", email |-> <<>>,
     ctk |-> "absent", valk |-> "absent", val |-> 0, id |-> id]

\* The elements upstream responses are built from.
SampleItems ==
    { Record(1, <<"a">>, "int", 5),
      Record(2, <<"A">>, "numstr", 9),
      RecordNoCreated(3, <<" ", "a">>, "absent"),
      Record(4, <<"a">>, "int", -3),
      Record(5, <<"a">>, "int", 0),
      Record(6, <<"b">>, "int", 7),
      RecordNoRequester(7, "absent", "badstr", 0),
      NotARecord(8),
      RecordNoRequester(9, "other", "int", 4),
      Record(10, <<"a">>, "float", 1),
      RecordNoCreated(11, <<"a">>, "other") }

\* The requester emails list_my_tickets is called with.
SampleEmails == { <<"A", " ">>, <<>> }

RECURSIVE SeqsUpTo(_, _)
SeqsUpTo(S, n) ==
    IF n = 0 THEN {<<>>}
    ELSE LET shorter == SeqsUpTo(S, n - 1)
         IN  shorter \cup {Append(s, x) : s \in {t \in shorter : Len(t) = n - 1}, x \in S}

\* list_info of a response: `present` says whether the mapping has one.
NoListInfo ==
    [present |-> FALSE, row_count |-> 0, start_index |-> 0, get_total_count |-> FALSE,
     has_total |-> FALSE, total_count |-> 0, has_more_rows |-> FALSE]

UpstreamListInfo(n) ==
    [present |-> TRUE, row_count |-> n, start_index |-> 1, get_total_count |-> FALSE,
     has_total |-> FALSE, total_count |-> 0, has_more_rows |-> FALSE]

\* One key of a response mapping other than list_info, in insertion order.
ListEntry(k, v) == [k |-> k, islist |-> TRUE, v |-> v]
ScalarEntry(k) == [k |-> k, islist |-> FALSE, v |-> <<>>]

\* A parsed JSON response: a mapping ("dict"), or a top-level list ("list").
DictResponse(info, keys) == [kind |-> "dict", info |-> info, keys |-> keys, top |-> <<>>]
ListResponse(items) == [kind |-> "list", info |-> NoListInfo, keys |-> <<>>, top |-> items]

NoResponse == [kind |-> "none", info |-> NoListInfo, keys |-> <<>>, top |-> <<>>]

\* What a successful upstream call may answer.
UpstreamResponses ==
    LET lists == SeqsUpTo(SampleItems, MaxItems)
    IN  {DictResponse(UpstreamListInfo(Len(l)), <<ListEntry("requests", l)>>) : l \in lists}
        \cup {DictResponse(NoListInfo,
                           <<ScalarEntry("response_status"), ListEntry("tickets", l)>>) :
                 l \in lists}
        \cup {ListResponse(l) : l \in lists}

\* ------------------------------------------------------ _extract_list_items
\* mutant of KnownKeys: "data" is looked up before "requests"
KnownKeysDataFirst == <<"data", "requests", "list", "response">>

KnownKeys == <<"requests", "list", "data", "response">>

\* resp.get(k) is a list: the entries of the mapping under key k that hold a list
ListsUnder(resp, k) == SelectSeq(resp.keys, LAMBDA en : en.k = k /\ en.islist)

RECURSIVE FirstKnownList(_, _)
\* for k in ("requests", "list", "data", "response"): the first whose value is a list
FirstKnownList(resp, i) ==
    IF i > Len(KnownKeys) THEN <<>>
    ELSE IF ListsUnder(resp, KnownKeys[i]) # <<>> THEN <<ListsUnder(resp, KnownKeys[i])[1].v>>
    ELSE FirstKnownList(resp, i + 1)

\* for v in resp.values(): the first list-valued value, in insertion order
FirstAnyList(resp) ==
    LET ls == SelectSeq(resp.keys, LAMBDA en : en.islist)
    IN  IF ls = <<>> THEN <<>> ELSE <<ls[1].v>>

\* mutant of extract_list_items: only the scan of the values, no known keys
extract_list_itemsScanOnly(resp) ==
    IF resp.kind # "dict" THEN <<>>
    ELSE IF FirstAnyList(resp) # <<>> THEN FirstAnyList(resp)[1]
    ELSE <<>>

extract_list_items(resp) ==
    IF resp.kind # "dict" THEN <<>>
    ELSE IF FirstKnownList(resp, 1) # <<>> THEN FirstKnownList(resp, 1)[1]
    ELSE IF FirstAnyList(resp) # <<>> THEN FirstAnyList(resp)[1]
    ELSE <<>>

\* ------------------------------------------- V3: filter, sort, pagination
\* requester_email.strip().lower()
EmailNorm(s) == Lower(Strip(s))

\* requester.get / .strip() raise AttributeError on a requester that is no
\* mapping, or an email_id that is no string
FilterRaisesOn(it) ==
    it.isdict /\ (it.req = "other" \/ (it.req = "mapping" /\ it.emailk = "other"))

\* (requester.get("email_id") or "") of an element the filter does not raise on
EmailIdOf(it) ==
    IF it.isdict /\ it.req = "mapping" /\ it.emailk = "str" THEN it.email ELSE <<>>

\* mutant of FilterKeeps: the comparison trims but does not fold case
FilterKeepsCaseSensitive(it, requester_email) ==
    Strip(EmailIdOf(it)) = Strip(requester_email)

\* the condition under which the loop appends `it` to filtered
FilterKeeps(it, requester_email) == EmailNorm(EmailIdOf(it)) = EmailNorm(requester_email)

\* int(x) of a float given in halves truncates towards zero
IntOfHalves(h) == IF h >= 0 THEN h \div 2 ELSE -((-h) \div 2)

\* o.get raises AttributeError, outside the try, when o is no mapping
CreatedValueRaisesOn(o) == ~o.isdict

\* _created_value(o) of a mapping o
created_value(o) ==
    IF o.ctk # "mapping" THEN 0
    ELSE CASE o.valk = "int" -> o.val
           [] o.valk = "numstr" -> o.val
           [] o.valk = "float" -> IntOfHalves(o.val)
           [] OTHER -> 0

RECURSIVE InsertDesc(_, _)
\* x came before every element of s: it goes before the elements that do not
\* exceed it, so equal keys keep their order (list.sort is stable)
InsertDesc(x, s) ==
    IF s = <<>> THEN <<x>>
    ELSE IF created_value(Head(s)) > created_value(x)
         THEN <<Head(s)>> \o InsertDesc(x, Tail(s))
         ELSE <<x>> \o s

\* mutant of SortCreatedDesc: the list is paginated as filtered, unsorted
SortOmitted(s) == s

RECURSIVE SortCreatedDesc(_)
\* filtered.sort(key=_created_value, reverse=True)
SortCreatedDesc(s) == IF s = <<>> THEN <<>> ELSE InsertDesc(Head(s), SortCreatedDesc(Tail(s)))

\* mutant of Slice: the slice takes one element too many
SliceOneTooMany(seq, s, e) == SubSeq(seq, Min(s, Len(seq)) + 1, Min(e + 1, Len(seq)))

\* seq[s:e] for 0 <= s <= e
Slice(seq, s, e) == SubSeq(seq, Min(s, Len(seq)) + 1, Min(e, Len(seq)))

\* s = (page - 1) * page_size
PageStart(page, page_size) == (page - 1) * page_size

\* e = s + page_size
PageEnd(page, page_size) == PageStart(page, page_size) + page_size

\* mutant of PageResult: has_more_rows computed with e <= total
PageResultHasMoreInclusive(filtered, page, page_size) ==
    LET total == Len(filtered)
        s == PageStart(page, page_size)
        e == PageEnd(page, page_size)
        page_items == Slice(filtered, s, e)
    IN  DictResponse(
            [present |-> TRUE, row_count |-> Len(page_items),
             start_index |-> IF total # 0 THEN s + 1 ELSE 1,
             get_total_count |-> TRUE, has_total |-> TRUE, total_count |-> total,
             has_more_rows |-> e <= total],
            <<ListEntry("requests", page_items)>>)

\* mutant of PageResult: row_count reports the filtered total, not the page
PageResultRowCountTotal(filtered, page, page_size) ==
    LET total == Len(filtered)
        s == PageStart(page, page_size)
        e == PageEnd(page, page_size)
        page_items == Slice(filtered, s, e)
    IN  DictResponse(
            [present |-> TRUE, row_count |-> total,
             start_index |-> IF total # 0 THEN s + 1 ELSE 1,
             get_total_count |-> TRUE, has_total |-> TRUE, total_count |-> total,
             has_more_rows |-> e < total],
            <<ListEntry("requests", page_items)>>)

\* the mapping list_my_tickets builds from the sorted filtered list
PageResult(filtered, page, page_size) ==
    LET total == Len(filtered)
        s == PageStart(page, page_size)
        e == PageEnd(page, page_size)
        page_items == Slice(filtered, s, e)
    IN  DictResponse(
            [present |-> TRUE, row_count |-> Len(page_items),
             start_index |-> IF total # 0 THEN s + 1 ELSE 1,
             get_total_count |-> TRUE, has_total |-> TRUE, total_count |-> total,
             has_more_rows |-> e < total],
            <<ListEntry("requests", page_items)>>)

\* Errors: src names the call, or the local step, that raised.
NoError == [src |-> "none"]
UpstreamError(c) == [src |-> c]
LocalError(step) == [src |-> step]

\* Lines 211-248 on the pulled response: the items, the filtered list as it
\* stands when the code stops, and either the result or the error raised.
LocalEmulation(r, requester_email, page, page_size) ==
    LET items == extract_list_items(r)
        kept == SelectSeq(items, LAMBDA it : FilterKeeps(it, requester_email))
    IN  IF \E i \in 1..Len(items) : FilterRaisesOn(items[i])
        THEN [items |-> items, filtered |-> <<>>, err |-> LocalError("filter"),
              result |-> NoResponse]
        ELSE IF \E i \in 1..Len(kept) : CreatedValueRaisesOn(kept[i])
        THEN [items |-> items, filtered |-> kept, err |-> LocalError("sort"),
              result |-> NoResponse]
        ELSE [items |-> items, filtered |-> SortCreatedDesc(kept), err |-> NoError,
              result |-> PageResult(SortCreatedDesc(kept), page, page_size)]

\* ------------------------------------------------------- list_my_tickets
VARIABLES
    requester_email,  \* argument
    page,             \* argument
    page_size,        \* argument
    pc,               \* the call site control is at, or "returned" / "raised"
    inflight,         \* the upstream calls issued and not yet answered
    calls,            \* the upstream requests issued so far, with their outcomes
    resp,             \* the last response an upstream call returned
    items,            \* V3: _extract_list_items(resp)
    filtered,         \* V3: the filtered (then sorted) list
    result,           \* the value returned to the caller
    err               \* the error that reached the caller

listVars == <<requester_email, page, page_size, pc, inflight, calls, resp, items, filtered,
              result, err>>

\* get_ticket_status_by_display
VARIABLES
    display_id,       \* argument
    st_pc,            \* the call site control is at, or "returned" / "raised"
    st_calls,         \* the upstream requests issued so far, with their outcomes
    st_direct,        \* the response of the direct fetch by id, once it returned
    st_search,        \* the response of the search by display_id, once it returned
    st_result,        \* the value returned to the caller
    st_err            \* the error that reached the caller

statusVars == <<display_id, st_pc, st_calls, st_direct, st_search, st_result, st_err>>

\* add_note_by_display_id and add_note
VARIABLES
    n_entry,          \* the function called: "add_note_by_display_id" or "add_note"
    n_display_id,     \* argument of add_note_by_display_id
    n_email,          \* argument requester_email
    n_text,           \* argument note_text
    n_pc,             \* the call site control is at, or "returned" / "raised"
    n_rid,            \* rid / ticket_id, 0 while unresolved
    n_calls,          \* the upstream requests issued so far, with their outcomes
    n_search,         \* the response of the search by display_id, once it returned
    n_result,         \* the value returned to the caller
    n_err             \* the error that reached the caller

noteVars == <<n_entry, n_display_id, n_email, n_text, n_pc, n_rid, n_calls, n_search,
              n_result, n_err>>

\* create_ticket, and the configuration the module reads from the environment
VARIABLES
    cfg,              \* SDP_DEFAULT_SITE_ID, SDP_DEFAULT_SITE_NAME, SDP_TEMPLATE_ID,
                      \* SDP_TEMPLATE_NAME, ALLOW_TEMPLATE_FALLBACK
    c_args,           \* arguments requester_email, subject, description
    c_pc,             \* the call site control is at, or "returned" / "raised"
    c_calls,          \* the create calls issued so far, with their outcomes
    c_result,         \* the value returned to the caller
    c_err             \* the error that reached the caller

createVars == <<cfg, c_args, c_pc, c_calls, c_result, c_err>>

\* _apply_site_and_template
VARIABLES
    ap_obj,           \* request_obj, modified in place
    ap_before,        \* request_obj as it was passed
    ap_include,       \* include_template
    ap_pc             \* "apply" before the call, "applied" after

applyVars == <<ap_obj, ap_before, ap_include, ap_pc>>

\* _compact_from_request_obj
VARIABLES
    cp_obj,           \* obj
    cp_before,        \* obj as it was passed to the first call
    cp_outs,          \* the values returned by the calls so far
    cp_pc             \* "compact" while calls may follow, "raised" after an error

compactVars == <<cp_obj, cp_before, cp_outs, cp_pc>>

\* trazabilidad: the ejecuciones table, _lock and the calls in progress
VARIABLES
    tr_store,         \* the committed rows of ejecuciones, in insertion order
    tr_lock,          \* the thread holding _lock, 0 when it is free
    tr_th,            \* per thread: position in log_exec, row id, values returned
    tr_recent         \* the last list_recent call: limit, rows read, rows returned

traceVars == <<tr_store, tr_lock, tr_th, tr_recent>>

\* an intent endpoint of main.py handling one request
VARIABLES
    ep_endpoint,      \* the route of the request
    ep_email,         \* the email argument, None for status_by_display
    ep_pc,            \* position in the handler
    ep_action,        \* the outcome of the facade call
    ep_exc,           \* the exception the except clause caught
    ep_http           \* the answer to the caller

intentVars == <<ep_endpoint, ep_email, ep_pc, ep_action, ep_exc, ep_http>>

\* the proactive messaging endpoints of main.py
VARIABLES
    LAST_REF,         \* the stored conversation reference and its fallbacks
    nf_reqs,          \* the number of requests handled
    nf_http,          \* the endpoint and status of the last answer
    nf_sent           \* the activities handed to send_activity

notifyVars == <<LAST_REF, nf_reqs, nf_http, nf_sent>>

\* the state of the HTTP layer and of its audit store
httpVars == <<traceVars, intentVars, notifyVars>>

\* the operations of the facade
facadeVars == <<listVars, statusVars, noteVars, createVars, applyVars, compactVars>>

vars == <<facadeVars, httpVars>>

\* the state of the operations other than list_my_tickets
outsideList == <<statusVars, noteVars, createVars, applyVars, compactVars, httpVars>>

\* the state of the operations other than get_ticket_status_by_display
outsideStatus == <<listVars, noteVars, createVars, applyVars, compactVars, httpVars>>

\* the state of the operations other than add_note_by_display_id and add_note
outsideNote == <<listVars, statusVars, createVars, applyVars, compactVars, httpVars>>

\* the state of the operations other than create_ticket
outsideCreate == <<listVars, statusVars, noteVars, applyVars, compactVars, httpVars>>

\* the state outside _apply_site_and_template; cfg is only read
outsideApply == <<listVars, statusVars, noteVars, createVars, compactVars, httpVars>>

\* the state outside _compact_from_request_obj
outsideCompact == <<listVars, statusVars, noteVars, createVars, applyVars, httpVars>>

\* The upstream calls of list_my_tickets, in source order.
Calls == <<"V0_get", "V1_post", "V2_post", "V3_post", "V3_get">>
CallSet == {Calls[i] : i \in 1..Len(Calls)}

\* The strategy (1..4 in the docstring's V0..V3) a call belongs to.
StrategyOf(c) ==
    CASE c = "V0_get" -> 1
      [] c = "V1_post" -> 2
      [] c = "V2_post" -> 3
      [] OTHER -> 4

\* mutant of start_index: the offset is taken as zero-based
start_indexZeroBased(p, ps) == (p - 1) * ps

\* start_index = 1 + (page - 1) * page_size
start_index(p, ps) == 1 + (p - 1) * ps

\* mutant of raw_row_count: the block is always 200 records
raw_row_countFixed(ps) == RawRowCountMin

\* raw_row_count = max(page_size * 5, 200)
raw_row_count(ps) == Max(ps * RawRowCountFactor, RawRowCountMin)

\* The request a call sends: transport, and the list_info of its input_data.
Request(c, email, p, ps) ==
    CASE c = "V0_get" ->
           [call |-> c, method |-> "GET", row_count |-> ps, start_index |-> start_index(p, ps),
            filter |-> "search_fields", email |-> email, sort_desc |-> TRUE,
            get_total_count |-> TRUE]
      [] c = "V1_post" ->
           [call |-> c, method |-> "POST_FORM", row_count |-> ps,
            start_index |-> start_index(p, ps), filter |-> "search_fields", email |-> email,
            sort_desc |-> FALSE, get_total_count |-> FALSE]
      [] c = "V2_post" ->
           [call |-> c, method |-> "POST_FORM", row_count |-> ps,
            start_index |-> start_index(p, ps), filter |-> "search_criteria", email |-> email,
            sort_desc |-> FALSE, get_total_count |-> FALSE]
      [] c = "V3_post" ->
           [call |-> c, method |-> "POST_FORM", row_count |-> raw_row_count(ps),
            start_index |-> 1, filter |-> "none", email |-> <<>>, sort_desc |-> FALSE,
            get_total_count |-> FALSE]
      [] OTHER ->
           [call |-> c, method |-> "GET", row_count |-> raw_row_count(ps),
            start_index |-> 1, filter |-> "none", email |-> <<>>, sort_desc |-> FALSE,
            get_total_count |-> FALSE]

\* mutant of IsPassThrough: the answer of V2 is post-processed like a pull
IsPassThroughV0V1Only(c) == c \in {"V0_get", "V1_post"}

\* `return sdp_get(...)` / `return sdp_post_form(...)`: the response is the result
IsPassThrough(c) == c \in {"V0_get", "V1_post", "V2_post"}

\* mutant of Caught: the call of V2 is not wrapped in a try
CaughtExceptV2(c) == c \in {"V0_get", "V1_post", "V3_post"}

\* the call sits in a try whose except swallows the error
Caught(c) == c \in {"V0_get", "V1_post", "V2_post", "V3_post"}

\* mutant of Fallthrough: a failure of V0 goes straight to V2
FallthroughSkipsV1(c) ==
    CASE c = "V0_get" -> "V2_post"
      [] c = "V1_post" -> "V2_post"
      [] c = "V2_post" -> "V3_post"
      [] OTHER -> "V3_get"

\* mutant of Fallthrough: a failure of V2 tries V2 again
FallthroughRetriesV2(c) ==
    CASE c = "V0_get" -> "V1_post"
      [] c = "V1_post" -> "V2_post"
      [] c = "V2_post" -> "V2_post"
      [] OTHER -> "V3_get"

\* the call site control reaches after the except of call c
Fallthrough(c) ==
    CASE c = "V0_get" -> "V1_post"
      [] c = "V1_post" -> "V2_post"
      [] c = "V2_post" -> "V3_post"
      [] OTHER -> "V3_get"

\* The compact ticket when nothing was compacted.
NoCompact ==
    [display_id |-> <<>>, subject |-> "null", status |-> "null", status_id |-> "null",
     created_time |-> "null", requester_email |-> "null", technician |-> "null",
     site |-> "null"]

\* The value of st_result before get_ticket_status_by_display returns.
\* wrapped: raw is {"list_response": raw} rather than the response itself.
NoStatusResult == [ticket |-> NoCompact, raw |-> NoResponse, wrapped |-> FALSE]

\* Errors of get_ticket_status_by_display: src as in UpstreamError, names is the
\* display_id a not-found error carries in its text.
StatusNoError == [src |-> "none", names |-> <<>>]

\* The response of a note submission; none before add_note returns.
NoNoteResponse == [kind |-> "none", note |-> 0]

\* get_ticket_status_by_display is not running
StatusIdle ==
    /\ display_id = <<>>
    /\ st_pc = "idle"
    /\ st_calls = <<>>
    /\ st_direct = NoResponse
    /\ st_search = NoResponse
    /\ st_result = NoStatusResult
    /\ st_err = StatusNoError

\* A site or template clause of a create payload: {"id": n}, {"id": s},
\* {"name": s}, or no clause under that key.
NoClause == [by |-> "absent", isint |-> FALSE, n |-> 0, s |-> <<>>]
IdNumberClause(n) == [by |-> "id", isint |-> TRUE, n |-> n, s |-> <<>>]
IdTextClause(s) == [by |-> "id", isint |-> FALSE, n |-> 0, s |-> s]
NameClause(s) == [by |-> "name", isint |-> FALSE, n |-> 0, s |-> s]

\* The request object of a create payload; priority stands for any key the
\* module does not know.
RequestObj(email, subject, description, site, template, priority) ==
    [requester |-> [email_id |-> email], subject |-> subject, description |-> description,
     site |-> site, template |-> template, priority |-> priority]

NoRequestObj == RequestObj(<<>>, <<>>, <<>>, NoClause, NoClause, "absent")

\* The configuration with nothing set; an unset variable and an empty one are
\* both <<>>, and ALLOW_TEMPLATE_FALLBACK defaults to "true".
NoConfig ==
    [site_id |-> <<>>, site_name |-> <<>>, template_id |-> <<>>, template_name |-> <<>>,
     allow_template_fallback |-> TRUE]

NoCreateResponse == [kind |-> "none", request_id |-> 0]

\* Errors of create_ticket: the call that raised and the text of the exception.
NoCreateError == [src |-> "none", text |-> <<>>]

\* create_ticket is not running
CreateNotRunning ==
    /\ c_args = [requester_email |-> <<>>, subject |-> <<>>, description |-> <<>>]
    /\ c_pc = "idle"
    /\ c_calls = <<>>
    /\ c_result = NoCreateResponse
    /\ c_err = NoCreateError

CreateIdle == cfg = NoConfig /\ CreateNotRunning

\* _apply_site_and_template is not running
ApplyIdle ==
    /\ ap_obj = NoRequestObj
    /\ ap_before = NoRequestObj
    /\ ap_include = TRUE
    /\ ap_pc = "idle"

\* _compact_from_request_obj is not running
CompactIdle ==
    /\ cp_obj = <<>>
    /\ cp_before = <<>>
    /\ cp_outs = <<>>
    /\ cp_pc = "idle"

\* add_note_by_display_id and add_note are not running
NoteIdle ==
    /\ n_entry = "none"
    /\ n_display_id = <<>>
    /\ n_email = <<>>
    /\ n_text = <<>>
    /\ n_pc = "idle"
    /\ n_rid = 0
    /\ n_calls = <<>>
    /\ n_search = NoResponse
    /\ n_result = NoNoteResponse
    /\ n_err = StatusNoError

\* list_my_tickets is not running
ListIdle ==
    /\ requester_email = <<>>
    /\ page = 1
    /\ page_size = 1
    /\ pc = "idle"
    /\ inflight = {}
    /\ calls = <<>>
    /\ resp = NoResponse
    /\ items = <<>>
    /\ filtered = <<>>
    /\ result = NoResponse
    /\ err = NoError

\* no list_recent call has been made
NoRecent == [limit |-> 0, seen |-> <<>>, rows |-> <<>>]

\* a thread outside log_exec that has made no call
ThreadIdle == [pc |-> "idle", row |-> 0, outs |-> <<>>]

\* the audit store is empty and nobody is in log_exec
TraceIdle ==
    /\ tr_store = <<>>
    /\ tr_lock = 0
    /\ tr_th = <<>>
    /\ tr_recent = NoRecent

\* no intent endpoint is handling a request
IntentIdle ==
    /\ ep_endpoint = "none"
    /\ ep_email = "None"
    /\ ep_pc = "idle"
    /\ ep_action = "none"
    /\ ep_exc = "none"
    /\ ep_http = 0

\* a reference dict without keys; "None" marks a key that is absent
EmptyRefDict ==
    [service_url |-> "None", serviceUrl |-> "None", channel_id |-> "None",
     channelId |-> "None", conversation |-> "None"]

\* LAST_REF as the module defines it: ref is None
NoLastRef ==
    [ref |-> [kind |-> "None", d |-> EmptyRefDict],
     service_url |-> "None", channel_id |-> "None"]

\* the messaging endpoints have handled nothing
NotifyIdle ==
    /\ LAST_REF = NoLastRef
    /\ nf_reqs = 0
    /\ nf_http = [endpoint |-> "none", status |-> 0]
    /\ nf_sent = <<>>


Init ==
    /\ TraceIdle
    /\ IntentIdle
    /\ NotifyIdle
    /\ requester_email \in SampleEmails
    /\ page \in 1..MaxPage
    /\ page_size \in 1..MaxPageSize
    /\ pc = "V0_get"
    /\ inflight = {}
    /\ calls = <<>>
    /\ resp = NoResponse
    /\ items = <<>>
    /\ filtered = <<>>
    /\ result = NoResponse
    /\ err = NoError
    /\ StatusIdle
    /\ NoteIdle
    /\ CreateIdle
    /\ ApplyIdle
    /\ CompactIdle

\* Control reaches the call site of c and sends its request; the call blocks.
Issue(c) ==
    /\ pc = c
    /\ c \notin inflight
    /\ inflight' = inflight \cup {c}
    /\ calls' = Append(calls, [req |-> Request(c, requester_email, page, page_size),
                               outcome |-> "pending", error |-> NoError])
    /\ UNCHANGED <<requester_email, page, page_size, pc, resp, items, filtered, result, err>>
    /\ UNCHANGED outsideList

\* The call c returns parsed JSON.  V0..V2 return it to the caller as it is;
\* the V3 pulls go on to lines 211-248.
ReturnsWith(c, r) ==
    /\ pc = c
    /\ c \in inflight
    /\ inflight' = inflight \ {c}
    /\ calls' = [calls EXCEPT ![Len(calls)].outcome = "returned"]
    /\ resp' = r
    /\ IF IsPassThrough(c)
       THEN /\ result' = r
            /\ pc' = "returned"
            /\ UNCHANGED <<items, filtered, err>>
       ELSE LET loc == LocalEmulation(r, requester_email, page, page_size)
            IN  /\ items' = loc.items
                /\ filtered' = loc.filtered
                /\ result' = loc.result
                /\ err' = loc.err
                /\ pc' = IF loc.err = NoError THEN "returned" ELSE "raised"
    /\ UNCHANGED <<requester_email, page, page_size>>
    /\ UNCHANGED outsideList

Returns(c) == \E r \in UpstreamResponses : ReturnsWith(c, r)

\* The call c raises (non-2xx answer, timeout, unparsable body).
Raises(c) ==
    /\ pc = c
    /\ c \in inflight
    /\ inflight' = inflight \ {c}
    /\ calls' = [calls EXCEPT ![Len(calls)].outcome = "raised",
                              ![Len(calls)].error = UpstreamError(c)]
    /\ IF Caught(c)
       THEN /\ pc' = Fallthrough(c)
            /\ err' = err
       ELSE /\ pc' = "raised"
            /\ err' = UpstreamError(c)
    /\ UNCHANGED <<requester_email, page, page_size, resp, items, filtered, result>>
    /\ UNCHANGED outsideList

Next == \E c \in CallSet : Issue(c) \/ Returns(c) \/ Raises(c)

Spec == Init /\ [][Next]_vars

\* ================================================================ claims
\* The strategy a logged request belongs to, read off what was sent.
SentStrategy(rq) ==
    CASE rq.method = "GET" /\ rq.filter = "search_fields" -> 1
      [] rq.method = "POST_FORM" /\ rq.filter = "search_fields" -> 2
      [] rq.method = "POST_FORM" /\ rq.filter = "search_criteria" -> 3
      [] rq.filter = "none" -> 4
      [] OTHER -> 0

LastCall == calls[Len(calls)]

\* list_my_tickets returned, and the call that answered was an unfiltered pull
ViaStrategy4 == pc = "returned" /\ calls # <<>> /\ SentStrategy(LastCall.req) = 4

\* result["requests"]
RequestsOf(res) ==
    IF ListsUnder(res, "requests") = <<>> THEN <<>> ELSE ListsUnder(res, "requests")[1].v

\* the pulled records that match the requester email
MatchingPulled == {i \in 1..Len(items) : FilterKeeps(items[i], requester_email)}

\* C1: the strategies are attempted in the order 1 (GET, search_fields),
\* 2 (POST form, search_fields), 3 (POST form, search_criteria), 4 (unfiltered
\* pull); a call is issued only after every earlier call has raised, and at
\* most one call is in flight.
C1_OrderedSequentialAttempts ==
    /\ Cardinality(inflight) <= 1
    /\ \A i \in 1..Len(calls) :
         /\ SentStrategy(calls[i].req) \in 1..4
         /\ i = 1 => SentStrategy(calls[i].req) = 1
         /\ i > 1 =>
              /\ calls[i - 1].outcome = "raised"
              /\ \/ SentStrategy(calls[i].req) = SentStrategy(calls[i - 1].req) + 1
                 \/ SentStrategy(calls[i].req) = 4 /\ SentStrategy(calls[i - 1].req) = 4

\* C1 witness: every strategy has been attempted, the last one is in flight
C1_Witness ==
    /\ Len(calls) >= 4
    /\ SentStrategy(LastCall.req) = 4
    /\ LastCall.outcome = "pending"
    /\ inflight # {}

\* C2: once a call of strategy 1..3 has returned, list_my_tickets has returned
\* exactly that response; no later call exists and nothing was computed locally.
C2_FirstSuccessIsTheResult ==
    \A i \in 1..Len(calls) :
        (calls[i].outcome = "returned" /\ SentStrategy(calls[i].req) \in 1..3) =>
            /\ i = Len(calls)
            /\ pc = "returned"
            /\ inflight = {}
            /\ result = resp
            /\ items = <<>> /\ filtered = <<>>
            /\ \A j \in 1..(i - 1) : calls[j].outcome = "raised"

\* C2 witness: strategy 2 answered, after strategy 1 raised, with records that
\* the local emulation would have filtered
C2_Witness ==
    /\ pc = "returned"
    /\ Len(calls) = 2
    /\ calls[1].outcome = "raised"
    /\ calls[2].outcome = "returned"
    /\ resp.kind = "dict"
    /\ extract_list_items(resp) # <<>>
    /\ LocalEmulation(resp, requester_email, page, page_size).result # resp

\* C3: when every call has raised, the caller receives the error raised by the
\* last call of strategy 4 as it was raised; an error of strategies 1..3 is
\* never the one that reaches the caller.
C3_LastErrorSurfaces ==
    /\ (calls # <<>> /\ \A i \in 1..Len(calls) : calls[i].outcome = "raised"
        /\ SentStrategy(LastCall.req) = 4 /\ pc \notin CallSet) =>
           /\ pc = "raised"
           /\ err = LastCall.error
           /\ err # NoError
    /\ pc = "raised" =>
           \A i \in 1..Len(calls) :
               SentStrategy(calls[i].req) \in 1..3 => err # calls[i].error

\* C3 witness: all the calls raised and the error reached the caller
C3_Witness ==
    /\ pc = "raised"
    /\ Len(calls) = Len(Calls)
    /\ \A i \in 1..Len(calls) : calls[i].outcome = "raised"

\* C4 (as claimed): one invocation issues at most four upstream calls.
C4_AtMostFourCalls == Len(calls) <= 4

CallsOfStrategy(k) == {i \in 1..Len(calls) : SentStrategy(calls[i].req) = k}

\* C4 (amended): strategies 1..3 are one upstream call each; strategy 4 is one
\* call, or two (the POST pull, then the GET pull once the POST pull raised);
\* one invocation issues at most five upstream calls.
C4_AtMostFiveCalls ==
    /\ Len(calls) <= 5
    /\ \A k \in 1..3 : Cardinality(CallsOfStrategy(k)) <= 1
    /\ Cardinality(CallsOfStrategy(4)) <= 2
    /\ \A i, j \in CallsOfStrategy(4) :
         i < j => /\ calls[i].req.method = "POST_FORM"
                  /\ calls[i].outcome = "raised"
                  /\ calls[j].req.method = "GET"

\* C4 witness: the fifth call has been issued
C4_Witness == Len(calls) = 5 /\ Cardinality(CallsOfStrategy(4)) = 2

\* C5: a strategy-4 result holds min(page_size, max(0, total_filtered -
\* (page-1)*page_size)) requests, total_filtered being the number of pulled
\* records that match the requester email.
C5_PageLength ==
    ViaStrategy4 =>
        Len(RequestsOf(result)) =
            Min(page_size, Max(0, Cardinality(MatchingPulled) - (page - 1) * page_size))

\* C5 witness: more matching records than the page holds
C5_Witness ==
    /\ ViaStrategy4
    /\ Cardinality(MatchingPulled) > page_size
    /\ Len(RequestsOf(result)) = page_size

\* C6: in a strategy-4 result total_count is the size of the filtered set and
\* has_more_rows is true exactly when page*page_size is smaller than that size.
C6_TotalAndHasMore ==
    ViaStrategy4 =>
        /\ result.info.present
        /\ result.info.has_total
        /\ result.info.total_count = Cardinality(MatchingPulled)
        /\ result.info.has_more_rows <=> (page * page_size < Cardinality(MatchingPulled))

\* C6 witness: the page ends exactly at the end of the filtered set
C6_Witness ==
    /\ ViaStrategy4
    /\ Cardinality(MatchingPulled) > 0
    /\ page * page_size = Cardinality(MatchingPulled)
    /\ ~result.info.has_more_rows

\* the element is a record that carries a requester email
HasEmail(it) == it.isdict /\ it.req = "mapping" /\ it.emailk = "str"

\* the element's requester email equals the requested one, ignoring case only
EqualIgnoringCase(it) == HasEmail(it) /\ Lower(it.email) = Lower(requester_email)

\* C7 (as claimed, for a requested email that is not empty): the filtered set
\* is exactly the pulled records whose requester email equals the requested
\* email ignoring case.
C7_FilterIgnoringCase ==
    (ViaStrategy4 /\ requester_email # <<>>) =>
        /\ \A i \in 1..Len(RequestsOf(result)) : EqualIgnoringCase(RequestsOf(result)[i])
        /\ result.info.total_count =
               Cardinality({i \in 1..Len(items) : EqualIgnoringCase(items[i])})

\* the element's requester email (the empty string when the element is no
\* mapping or has no requester or no email) equals the requested one once both
\* are trimmed of surrounding whitespace and lower-cased
EqualTrimmedIgnoringCase(it) ==
    Lower(Strip(IF HasEmail(it) THEN it.email ELSE <<>>)) = Lower(Strip(requester_email))

\* C7 (amended): the filtered set is exactly the pulled records whose requester
\* email, trimmed and lower-cased (empty when missing), equals the requested
\* email trimmed and lower-cased: every returned record matches, every
\* matching pulled record is in the filtered list, and is counted.
C7_FilterTrimmedIgnoringCase ==
    ViaStrategy4 =>
        /\ \A i \in 1..Len(RequestsOf(result)) :
               EqualTrimmedIgnoringCase(RequestsOf(result)[i])
        /\ \A i \in 1..Len(filtered) : EqualTrimmedIgnoringCase(filtered[i])
        /\ \A i \in 1..Len(items) :
               EqualTrimmedIgnoringCase(items[i]) =>
                   Cardinality({j \in 1..Len(filtered) : filtered[j] = items[i]}) =
                       Cardinality({j \in 1..Len(items) : items[j] = items[i]})
        /\ result.info.total_count =
               Cardinality({i \in 1..Len(items) : EqualTrimmedIgnoringCase(items[i])})

\* C7 witness: a record matches only thanks to the trimming and the case
\* folding, next to one that does not match
C7_Witness ==
    /\ ViaStrategy4
    /\ requester_email # <<>>
    /\ \E i \in 1..Len(RequestsOf(result)) :
           /\ RequestsOf(result)[i].email # requester_email
           /\ ~EqualIgnoringCase(RequestsOf(result)[i])
    /\ \E i \in 1..Len(items) : ~EqualTrimmedIgnoringCase(items[i])

\* the record has no usable creation time: created_time missing, no mapping,
\* or its value missing or a string that is no number
MissingCreated(o) ==
    o.isdict /\ (o.ctk # "mapping" \/ o.valk \in {"absent", "badstr"})

\* the record has a numeric creation time
NumericCreated(o) == o.isdict /\ o.ctk = "mapping" /\ o.valk \in {"int", "numstr", "float"}

\* the numeric creation time is 1 or more
CreatedAtLeastOne(o) ==
    NumericCreated(o) /\ IF o.valk = "float" THEN o.val >= 2 ELSE o.val >= 1

\* C8 (as claimed): in the strategy-4 ordering every record without a usable
\* creation time comes after every record with a numeric one, whatever its value.
C8_MissingAfterAllNumeric ==
    ViaStrategy4 =>
        \A i, j \in 1..Len(filtered) :
            (MissingCreated(filtered[i]) /\ NumericCreated(filtered[j])) => j < i

\* the numeric creation time is -1 or less
CreatedAtMostMinusOne(o) ==
    NumericCreated(o) /\ IF o.valk = "float" THEN o.val <= -2 ELSE o.val <= -1

\* C8 (amended): in the strategy-4 ordering every record without a usable
\* creation time is ordered as a record of creation time 0: after every record
\* whose numeric creation time is 1 or more, before every record whose
\* numeric creation time is -1 or less.
C8_MissingAfterPositive ==
    ViaStrategy4 =>
        \A i, j \in 1..Len(filtered) :
            /\ (MissingCreated(filtered[i]) /\ CreatedAtLeastOne(filtered[j])) => j < i
            /\ (MissingCreated(filtered[i]) /\ CreatedAtMostMinusOne(filtered[j])) => i < j

\* C8 witness: the pull listed a record without creation time before one with
\* a positive creation time, and both were kept
C8_Witness ==
    /\ ViaStrategy4
    /\ Len(filtered) = 2
    /\ Len(items) = 2
    /\ MissingCreated(items[1])
    /\ CreatedAtLeastOne(items[2])
    /\ filtered = <<items[2], items[1]>>

\* C9: the strategy-4 sort never raises, a filtered record without a usable
\* creation time is ordered as if its value were zero, and the page is in
\* non-increasing order of that value.
C9_SortNeverRaises ==
    /\ err # LocalError("sort")
    /\ ViaStrategy4 =>
           \A i, j \in 1..Len(RequestsOf(result)) :
               i < j => created_value(RequestsOf(result)[i]) >=
                            created_value(RequestsOf(result)[j])

\* C10 (as claimed): every mapping list_my_tickets returns has
\* list_info.row_count = len(requests).
C10_RowCountAlways ==
    (pc = "returned" /\ result.kind = "dict") =>
        result.info.present /\ result.info.row_count = Len(RequestsOf(result))

\* C10 (amended): every result built by strategy 4 has list_info.row_count =
\* len(requests); strategies 1..3 hand the upstream response on as received.
C10_RowCountStrategy4 ==
    ViaStrategy4 =>
        result.info.present /\ result.info.row_count = Len(RequestsOf(result))

\* C10 witness: a strategy-4 page shorter than the filtered set
C10_Witness ==
    /\ ViaStrategy4
    /\ Len(RequestsOf(result)) >= 1
    /\ result.info.total_count > Len(RequestsOf(result))

\* ------------------------------- list_my_tickets over every page_size
\* page_size: int = Query(25, ge=1, le=200)
PageSizeLimit == 200

\* The answers of the upstream in SpecWide: lists of a matching and a
\* non-matching record.
FewResponses ==
    {DictResponse(UpstreamListInfo(Len(l)), <<ListEntry("requests", l)>>) :
        l \in SeqsUpTo({Record(1, <<"a">>, "int", 5), Record(6, <<"b">>, "int", 7)}, MaxItems)}

InitWide ==
    /\ TraceIdle
    /\ IntentIdle
    /\ NotifyIdle
    /\ requester_email \in SampleEmails
    /\ page \in 1..MaxPage
    /\ page_size \in 1..PageSizeLimit
    /\ pc = "V0_get"
    /\ inflight = {}
    /\ calls = <<>>
    /\ resp = NoResponse
    /\ items = <<>>
    /\ filtered = <<>>
    /\ result = NoResponse
    /\ err = NoError
    /\ StatusIdle
    /\ NoteIdle
    /\ CreateIdle
    /\ ApplyIdle
    /\ CompactIdle

ReturnsFew(c) == \E r \in FewResponses : ReturnsWith(c, r)

NextWide == \E c \in CallSet : Issue(c) \/ ReturnsFew(c) \/ Raises(c)

\* list_my_tickets for every page_size the HTTP layer lets through
SpecWide == InitWide /\ [][NextWide]_vars

C12_ServerSidePaging ==
    \A i \in 1..Len(calls) :
        i <= 3 =>
            /\ calls[i].req.row_count = page_size
            /\ calls[i].req.start_index = 1 + (page - 1) * page_size
            /\ calls[i].req.filter \in {"search_fields", "search_criteria"}
            /\ calls[i].req.email = requester_email
            /\ i = 1 => (calls[i].req.sort_desc /\ calls[i].req.get_total_count)

\* C12 witness: the three server-side strategies were sent for a later page
C12_Witness ==
    /\ Len(calls) >= 3
    /\ page >= 2
    /\ page_size > 40
    /\ calls[3].req.start_index > page_size

\* ------------------------------------- _extract_list_items on its own
\* most keys of a response mapping given to _extract_list_items
MaxKeys == 2

\* The lists a response may hold.
SampleLists ==
    { <<>>,
      <<Record(1, <<"a">>, "int", 5)>>,
      <<Record(6, <<"b">>, "int", 7), Record(1, <<"a">>, "int", 5)>> }

\* The keys a response mapping may have: the known ones and two others.
SampleKeys == {"requests", "list", "data", "response", "tickets", "response_status"}

SampleEntries ==
    {ListEntry(k, l) : k \in SampleKeys, l \in SampleLists}
        \cup {ScalarEntry(k) : k \in SampleKeys}

\* the keys of a mapping are pairwise distinct
DistinctKeys(es) == \A i, j \in 1..Len(es) : es[i].k = es[j].k => i = j

\* A response that is neither a mapping nor a list (a JSON string, number, null).
ScalarResponse == [kind |-> "scalar", info |-> NoListInfo, keys |-> <<>>, top |-> <<>>]

\* The values _extract_list_items is applied to.
ExtractInputs ==
    {DictResponse(NoListInfo, es) :
        es \in {x \in SeqsUpTo(SampleEntries, MaxKeys) : DistinctKeys(x)}}
        \cup {ListResponse(l) : l \in SampleLists}
        \cup {ScalarResponse}

InitExtract ==
    /\ TraceIdle
    /\ IntentIdle
    /\ NotifyIdle
    /\ resp \in ExtractInputs
    /\ pc = "extract"
    /\ requester_email = <<>>
    /\ page = 1
    /\ page_size = 1
    /\ inflight = {}
    /\ calls = <<>>
    /\ items = <<>>
    /\ filtered = <<>>
    /\ result = NoResponse
    /\ err = NoError
    /\ StatusIdle
    /\ NoteIdle
    /\ CreateIdle
    /\ ApplyIdle
    /\ CompactIdle

\* items = _extract_list_items(resp)
Extract ==
    /\ pc = "extract"
    /\ items' = extract_list_items(resp)
    /\ pc' = "extracted"
    /\ UNCHANGED <<requester_email, page, page_size, inflight, calls, resp, filtered,
                   result, err>>
    /\ UNCHANGED outsideList

NextExtract == Extract

SpecExtract == InitExtract /\ [][NextExtract]_vars

\* the position of a key in the priority order requests, list, data, response
KeyRank(k) ==
    CASE k = "requests" -> 1
      [] k = "list" -> 2
      [] k = "data" -> 3
      [] k = "response" -> 4
      [] OTHER -> 0

\* the positions of the mapping that hold a list under a known key
KnownListPositions(r) == {j \in 1..Len(r.keys) : r.keys[j].islist /\ KeyRank(r.keys[j].k) > 0}

\* the positions of the mapping that hold a list
ListPositions(r) == {j \in 1..Len(r.keys) : r.keys[j].islist}

\* C13: for a mapping that holds a list under one of the known keys requests,
\* list, data, response, _extract_list_items returns exactly that list, in its
\* order, whatever the other keys hold.
C13_KnownKeyListReturned ==
    (pc = "extracted" /\ resp.kind = "dict") =>
        \A j \in KnownListPositions(resp) :
            KnownListPositions(resp) = {j} => items = resp.keys[j].v

\* C13 witness: a list under an unknown key comes first, the records under the
\* known key are the ones returned
C13_Witness ==
    /\ pc = "extracted"
    /\ resp.kind = "dict"
    /\ Len(resp.keys) = 2
    /\ resp.keys[1].islist /\ KeyRank(resp.keys[1].k) = 0
    /\ resp.keys[2].islist /\ KeyRank(resp.keys[2].k) > 0
    /\ Len(resp.keys[2].v) = 2
    /\ resp.keys[1].v # resp.keys[2].v
    /\ items = resp.keys[2].v

\* C14: a response that is itself a sequence of records is returned as it is.
C14_SequenceReturnedAsIs ==
    (pc = "extracted" /\ resp.kind = "list") => items = resp.top

\* what C15 says _extract_list_items returns for a mapping
ByPriorityThenInsertion(r) ==
    IF KnownListPositions(r) # {}
    THEN r.keys[CHOOSE j \in KnownListPositions(r) :
                    \A j2 \in KnownListPositions(r) :
                        KeyRank(r.keys[j].k) <= KeyRank(r.keys[j2].k)].v
    ELSE IF ListPositions(r) # {}
    THEN r.keys[CHOOSE j \in ListPositions(r) : \A j2 \in ListPositions(r) : j <= j2].v
    ELSE <<>>

\* C15: for a mapping, the known keys are checked in the order requests, list,
\* data, response and the first whose value is a list wins; otherwise the first
\* list-valued value in insertion order; otherwise the empty sequence.
C15_PriorityThenInsertionOrder ==
    (pc = "extracted" /\ resp.kind = "dict") => items = ByPriorityThenInsertion(resp)

\* C15 witness: "data" was inserted before "requests", both hold lists, and the
\* list under "requests" is returned
C15_Witness ==
    /\ pc = "extracted"
    /\ resp.kind = "dict"
    /\ Len(resp.keys) = 2
    /\ resp.keys[1].k = "data" /\ resp.keys[1].islist
    /\ resp.keys[2].k = "requests" /\ resp.keys[2].islist
    /\ resp.keys[1].v # resp.keys[2].v
    /\ items = resp.keys[2].v

\* ------------------------------------------- _compact_from_request_obj
NestedKeys == {"status", "created_time", "requester", "technician", "site"}

\* A ticket object as SDP returns it.
\*   isdict            : the object is a mapping
\*   id, display_id    : strings of characters, <<>> when missing
\*   subject, short_description : a string, "null" when missing
\*   nested[k]         : "absent" (missing or falsy), "mapping", or "other" (a
\*                       truthy value that is no mapping) for each nested key
Ticket(id, disp, subject, short, nestedKind) ==
    [isdict |-> TRUE, id |-> id, display_id |-> disp, subject |-> subject,
     short_description |-> short, nested |-> [k \in NestedKeys |-> nestedKind]]

NotATicket ==
    [isdict |-> FALSE, id |-> <<>>, display_id |-> <<>>, subject |-> "null",
     short_description |-> "null", nested |-> [k \in NestedKeys |-> "absent"]]

\* obj.get / status.get ... raise AttributeError on an object, or a truthy nested
\* value, that is no mapping
CompactRaisesOn(obj) == ~obj.isdict \/ \E k \in NestedKeys : obj.nested[k] = "other"

\* str(None)
NoneText == <<"N", "o", "n", "e">>

\* str(obj.get("id") or obj.get("display_id"))
CompactDisplayId(obj) ==
    IF obj.id # <<>> THEN obj.id
    ELSE IF obj.display_id # <<>> THEN obj.display_id
    ELSE NoneText

\* nested.get(field) for the nested mapping under k; the sample mappings carry
\* the field, with a value named after it
NestedField(obj, k, field) ==
    IF obj.nested[k] = "mapping" THEN field ELSE "null"

\* mutant of compact_from_request_obj: display_id is looked up before id
compact_from_request_objDisplayFirst(obj) ==
    [display_id |-> IF obj.display_id # <<>> THEN obj.display_id
                    ELSE IF obj.id # <<>> THEN obj.id ELSE NoneText,
     subject |-> IF obj.subject # "null" THEN obj.subject ELSE obj.short_description,
     status |-> NestedField(obj, "status", "status.name"),
     status_id |-> NestedField(obj, "status", "status.id"),
     created_time |-> NestedField(obj, "created_time", "created_time.display_value"),
     requester_email |-> NestedField(obj, "requester", "requester.email_id"),
     technician |-> NestedField(obj, "technician", "technician.name"),
     site |-> NestedField(obj, "site", "site.name")]

\* _compact_from_request_obj(obj) of an object it does not raise on
compact_from_request_obj(obj) ==
    [display_id |-> CompactDisplayId(obj),
     subject |-> IF obj.subject # "null" THEN obj.subject ELSE obj.short_description,
     status |-> NestedField(obj, "status", "status.name"),
     status_id |-> NestedField(obj, "status", "status.id"),
     created_time |-> NestedField(obj, "created_time", "created_time.display_value"),
     requester_email |-> NestedField(obj, "requester", "requester.email_id"),
     technician |-> NestedField(obj, "technician", "technician.name"),
     site |-> NestedField(obj, "site", "site.name")]

\* ------------------------------------------- get_ticket_status_by_display
IsDigit(c) == c \in {"0", "1", "2", "3", "4", "5", "6", "7", "8", "9"}

\* str.isdigit(): non-empty and every character a digit
isdigit(s) == s # <<>> /\ \A i \in 1..Len(s) : IsDigit(s[i])

\* disp = str(display_id).strip()
Disp(d) == Strip(d)

SampleDisplayIds == {<<"4", "2">>, <<" ", "4", "2">>, <<"R", "7">>}

\* mutant of TriesDirect: the direct fetch is attempted for every identifier
TriesDirectAlways(disp) == TRUE

\* if disp.isdigit():
TriesDirect(disp) == isdigit(disp)

\* The two upstream calls of the lookup: GET /api/v3/requests/{disp}, and
\* GET /api/v3/requests with list_info row_count 1, start_index 1 and
\* search_fields {"display_id": disp}.
StatusRequest(c, disp) ==
    [call |-> c,
     id |-> IF c = "direct" THEN disp ELSE <<>>,
     row_count |-> IF c = "search" THEN 1 ELSE 0,
     start_index |-> IF c = "search" THEN 1 ELSE 0,
     search_field |-> IF c = "search" THEN "display_id" ELSE "none",
     search_value |-> IF c = "search" THEN disp ELSE <<>>]

\* The answer to the direct fetch: a mapping or not (kind), and what it holds
\* under "request": nothing ("absent"), a mapping (ticket), or something else.
DirectResponse(kind, request, ticket) == [kind |-> kind, request |-> request, ticket |-> ticket]

\* The requests the upstream may return for the fetch of id disp: the request of
\* that id, with a display_id equal to or different from the id, or without an
\* id field, or with a nested value that is no mapping.
DirectTickets(disp) ==
    {Ticket(disp, disp, "s", "null", "mapping"),
     Ticket(disp, <<"R", "7">>, "null", "d", "absent"),
     Ticket(<<>>, disp, "s", "null", "absent"),
     Ticket(disp, disp, "s", "null", "other")}

DirectResponses(disp) ==
    {DirectResponse("dict", "mapping", t) : t \in DirectTickets(disp)}
    \cup {DirectResponse("dict", "absent", NotATicket),
          DirectResponse("dict", "other", NotATicket),
          DirectResponse("list", "absent", NotATicket)}

\* The records a search may return: with an id, with a display_id only, with a
\* nested value that is no mapping, and an element that is no mapping.
SearchTickets ==
    {Ticket(<<"9">>, <<"R", "7">>, "s", "null", "mapping"),
     Ticket(<<>>, <<"R", "7">>, "null", "d", "absent"),
     Ticket(<<"9">>, <<"R", "7">>, "s", "null", "other"),
     NotATicket}

SearchResponses ==
    LET lists == SeqsUpTo(SearchTickets, MaxItems)
    IN  {DictResponse(UpstreamListInfo(Len(l)), <<ListEntry("requests", l)>>) : l \in lists}
        \cup {DictResponse(NoListInfo,
                           <<ScalarEntry("response_status"), ListEntry("tickets", l)>>) :
                 l \in lists}
        \cup {ListResponse(l) : l \in lists}

\* req = r.get("request") if isinstance(r, dict) else None; isinstance(req, dict)
DirectUsable(r) == r.kind = "dict" /\ r.request = "mapping"

\* mutant of DirectSucceeds: any mapping is compacted and returned
DirectSucceedsAnyDict(r) == r.kind = "dict"

\* the try block of the direct fetch runs to its return
DirectSucceeds(r) == DirectUsable(r) /\ ~CompactRaisesOn(r.ticket)

\* mutant of DirectErrorCaught: the error of the direct fetch is not caught
DirectErrorSurfaces == FALSE

\* except Exception: pass
DirectErrorCaught == TRUE

\* mutant of DirectResult: raw is wrapped like the search result's
DirectResultWrapped(r) ==
    [ticket |-> compact_from_request_obj(r.ticket), raw |-> r, wrapped |-> TRUE]

\* return {"ticket": _compact_from_request_obj(req), "raw": r}
DirectResult(r) ==
    [ticket |-> compact_from_request_obj(r.ticket), raw |-> r, wrapped |-> FALSE]

\* return {"ticket": _compact_from_request_obj(items[0]), "raw": {"list_response": resp}}
SearchResult(r, its) ==
    [ticket |-> compact_from_request_obj(its[1]), raw |-> r, wrapped |-> TRUE]

\* mutant of NotFoundError: the message names the stripped identifier
NotFoundErrorNamesStripped(d) == [src |-> "not_found", names |-> Disp(d)]

\* RuntimeError(f"No se encontró ticket con display_id={display_id}")
NotFoundError(d) == [src |-> "not_found", names |-> d]

StatusError(src) == [src |-> src, names |-> <<>>]

InitStatus ==
    /\ TraceIdle
    /\ IntentIdle
    /\ NotifyIdle
    /\ display_id \in SampleDisplayIds
    /\ st_pc = "start"
    /\ st_calls = <<>>
    /\ st_direct = NoResponse
    /\ st_search = NoResponse
    /\ st_result = NoStatusResult
    /\ st_err = StatusNoError
    /\ ListIdle
    /\ NoteIdle
    /\ CreateIdle
    /\ ApplyIdle
    /\ CompactIdle

\* the search call is issued
IssueSearch ==
    /\ st_calls' = Append(st_calls, StatusRequest("search", Disp(display_id)))
    /\ st_pc' = "search_wait"

\* entry with an all-digits disp: the direct fetch is issued
StartDirect ==
    /\ st_pc = "start"
    /\ TriesDirect(Disp(display_id))
    /\ st_calls' = <<StatusRequest("direct", Disp(display_id))>>
    /\ st_pc' = "direct_wait"
    /\ UNCHANGED <<display_id, st_direct, st_search, st_result, st_err>>
    /\ UNCHANGED outsideStatus

\* entry with any other disp: straight to the search
StartSearch ==
    /\ st_pc = "start"
    /\ ~TriesDirect(Disp(display_id))
    /\ IssueSearch
    /\ UNCHANGED <<display_id, st_direct, st_search, st_result, st_err>>
    /\ UNCHANGED outsideStatus

\* the direct fetch answers r: return from inside the try, or go on to the search
DirectReturnsWith(r) ==
    /\ st_pc = "direct_wait"
    /\ st_direct' = r
    /\ IF DirectSucceeds(r)
       THEN /\ st_result' = DirectResult(r)
            /\ st_pc' = "returned"
            /\ UNCHANGED <<st_calls, st_err>>
       ELSE IF DirectUsable(r) /\ ~DirectErrorCaught
       THEN /\ st_err' = StatusError("compact")
            /\ st_pc' = "raised"
            /\ UNCHANGED <<st_calls, st_result>>
       ELSE /\ IssueSearch
            /\ UNCHANGED <<st_result, st_err>>
    /\ UNCHANGED <<display_id, st_search>>
    /\ UNCHANGED outsideStatus

DirectReturns == \E r \in DirectResponses(Disp(display_id)) : DirectReturnsWith(r)

\* sdp_get raises inside the try
DirectRaises ==
    /\ st_pc = "direct_wait"
    /\ IF DirectErrorCaught
       THEN /\ IssueSearch
            /\ UNCHANGED st_err
       ELSE /\ st_err' = StatusError("direct")
            /\ st_pc' = "raised"
            /\ UNCHANGED st_calls
    /\ UNCHANGED <<display_id, st_direct, st_search, st_result>>
    /\ UNCHANGED outsideStatus

\* the search answers r: not found, or the compaction of the first item
SearchReturnsWith(r) ==
    /\ st_pc = "search_wait"
    /\ st_search' = r
    /\ LET its == extract_list_items(r)
       IN  IF its = <<>>
           THEN /\ st_err' = NotFoundError(display_id)
                /\ st_pc' = "raised"
                /\ UNCHANGED st_result
           ELSE IF CompactRaisesOn(its[1])
           THEN /\ st_err' = StatusError("compact")
                /\ st_pc' = "raised"
                /\ UNCHANGED st_result
           ELSE /\ st_result' = SearchResult(r, its)
                /\ st_pc' = "returned"
                /\ UNCHANGED st_err
    /\ UNCHANGED <<display_id, st_calls, st_direct>>
    /\ UNCHANGED outsideStatus

SearchReturns == \E r \in SearchResponses : SearchReturnsWith(r)

\* sdp_get of the search raises: nothing catches it
SearchRaises ==
    /\ st_pc = "search_wait"
    /\ st_err' = StatusError("search")
    /\ st_pc' = "raised"
    /\ UNCHANGED <<display_id, st_calls, st_direct, st_search, st_result>>
    /\ UNCHANGED outsideStatus

NextStatus ==
    \/ StartDirect
    \/ StartSearch
    \/ DirectReturns
    \/ DirectRaises
    \/ SearchReturns
    \/ SearchRaises

SpecStatus == InitStatus /\ [][NextStatus]_vars

\* ---------------------------------------------------------------- C16..C20
\* the display identifier as given consists of digits only
DigitsOnly == isdigit(display_id)

DirectRequest == StatusRequest("direct", Disp(display_id))
SearchRequest == StatusRequest("search", Disp(display_id))

\* the direct fetch has answered with a request mapping
DirectFetched == st_direct.kind = "dict" /\ st_direct.request = "mapping"

\* the search has answered
SearchAnswered == st_search.kind # "none"

StatusDone == st_pc \in {"returned", "raised"}

\* C16 as stated: for a digits-only display identifier whose direct fetch by id
\* answers with the request, the lookup returns the compacted ticket with the raw
\* direct-fetch response attached and issues no search call.
C16_DirectSuccessReturns ==
    (DigitsOnly /\ DirectFetched) =>
        /\ st_pc = "returned"
        /\ st_result = [ticket |-> compact_from_request_obj(st_direct.ticket),
                        raw |-> st_direct, wrapped |-> FALSE]
        /\ st_calls = <<DirectRequest>>

\* C16 amended: for a digits-only display identifier whose direct fetch answers
\* with a request mapping that compacts without error, the lookup returns the
\* compacted ticket with the raw direct-fetch response attached and issues no
\* search call; a request whose compaction raises is treated as a failed fetch.
C16_CompactedDirectSuccessReturns ==
    (DigitsOnly /\ DirectFetched) =>
        IF CompactRaisesOn(st_direct.ticket)
        THEN Len(st_calls) = 2 /\ st_calls[2] = SearchRequest /\ st_result.raw # st_direct
        ELSE /\ st_pc = "returned"
             /\ st_result = [ticket |-> compact_from_request_obj(st_direct.ticket),
                             raw |-> st_direct, wrapped |-> FALSE]
             /\ st_calls = <<DirectRequest>>

C16_Witness ==
    /\ DigitsOnly
    /\ DirectFetched
    /\ st_pc = "returned"
    /\ st_calls = <<DirectRequest>>
    /\ st_result.raw = st_direct

OnlySearchThenFirstRecord ==
    /\ \A i \in 1..Len(st_calls) : st_calls[i].call # "direct"
    /\ st_pc # "start" => st_calls = <<SearchRequest>>

\* C18 as stated: for a display identifier that is not all digits there is never
\* a direct fetch, the only upstream call is one single-record search by display
\* identifier, and on a non-empty result the lookup returns the compaction of
\* the first record together with the raw search response.
C18_NonDigitSearchOnly ==
    ~DigitsOnly =>
        /\ OnlySearchThenFirstRecord
        /\ (SearchAnswered /\ extract_list_items(st_search) # <<>>) =>
               /\ st_pc = "returned"
               /\ st_result = [ticket |->
                                   compact_from_request_obj(extract_list_items(st_search)[1]),
                               raw |-> st_search, wrapped |-> TRUE]

\* C18 amended: for a display identifier that is not all digits once surrounding
\* whitespace is stripped there is never a direct fetch, the only upstream call
\* is one single-record search by the stripped identifier, and on a non-empty
\* extracted result the lookup returns the compaction of the first record with
\* the search response under "list_response", unless that record is no mapping
\* or has a nested value that is no mapping: then the compaction's error is
\* raised.
C18_StrippedNonDigitSearchOnly ==
    ~isdigit(Disp(display_id)) =>
        /\ OnlySearchThenFirstRecord
        /\ (SearchAnswered /\ extract_list_items(st_search) # <<>>) =>
               IF CompactRaisesOn(extract_list_items(st_search)[1])
               THEN st_pc = "raised" /\ st_err = StatusError("compact")
               ELSE /\ st_pc = "returned"
                    /\ st_result =
                           [ticket |->
                                compact_from_request_obj(extract_list_items(st_search)[1]),
                            raw |-> st_search, wrapped |-> TRUE]

C18_Witness ==
    /\ ~isdigit(Disp(display_id))
    /\ st_calls = <<SearchRequest>>
    /\ st_pc = "returned"
    /\ Len(extract_list_items(st_search)) > 1
    /\ st_result.raw = st_search

\* the direct fetch was issued and did not end in a return: it raised, or its
\* answer had no request mapping, or the compaction of the request raised
DirectFailed ==
    /\ st_calls # <<>>
    /\ st_calls[1].call = "direct"
    /\ st_pc # "direct_wait"
    /\ ~(DirectFetched /\ ~CompactRaisesOn(st_direct.ticket))

\* C19: for a digits-only display identifier, any failure of the direct fetch
\* makes the lookup fall back to the search; the direct-fetch error is never
\* surfaced, and the raw data of a successful result is the search response.
C19_DirectFailureFallsBack ==
    /\ st_err.src # "direct"
    /\ (DigitsOnly /\ DirectFailed) =>
           /\ st_calls = <<DirectRequest, SearchRequest>>
           /\ st_pc = "raised" => (SearchAnswered \/ st_err = StatusError("search"))
           /\ st_pc = "returned" =>
                  /\ st_result.raw = st_search
                  /\ st_result.wrapped
                  /\ st_result.raw # st_direct

\* the direct fetch raised, the search then answered and the lookup returned
C19_Witness ==
    /\ DigitsOnly
    /\ DirectFailed
    /\ st_direct = NoResponse
    /\ st_pc = "returned"
    /\ st_result.raw = st_search

\* the search call raised: the lookup ended in an error without a search answer
SearchRaised == st_pc = "raised" /\ ~SearchAnswered

\* C20: the lookup fails with a NotFound error naming the requested display
\* identifier exactly when the search returned without raising and yielded zero
\* records; an error raised by the search call itself is propagated as that
\* upstream error, not as NotFound.
C20_NotFoundIffEmptySearch ==
    /\ st_err.src = "not_found" <=>
           (SearchAnswered /\ extract_list_items(st_search) = <<>>)
    /\ st_err.src = "not_found" => st_err.names = display_id
    /\ SearchRaised => st_err = StatusError("search")

\* not found after a direct fetch that failed, for an identifier with whitespace
C20_Witness ==
    /\ st_err = NotFoundError(display_id)
    /\ display_id # Disp(display_id)
    /\ SearchAnswered
    /\ Len(st_calls) = 2

\* ------------------------------------------- add_note_by_display_id, add_note
DigitValue(c) ==
    CASE c = "0" -> 0 [] c = "1" -> 1 [] c = "2" -> 2 [] c = "3" -> 3 [] c = "4" -> 4
      [] c = "5" -> 5 [] c = "6" -> 6 [] c = "7" -> 7 [] c = "8" -> 8 [] c = "9" -> 9

\* int(s) of a string of digits
RECURSIVE IntOfDigits(_)
IntOfDigits(s) ==
    IF s = <<>> THEN 0
    ELSE 10 * IntOfDigits(SubSeq(s, 1, Len(s) - 1)) + DigitValue(s[Len(s)])

NoteDisplayIds == SampleDisplayIds \cup {<<"0", "7">>, <<"R", "7", " ">>}
NoteTexts == {<<"h", "i">>, <<>>}
NoteEmails == {<<"A">>, <<>>}
NoteTicketIds == {7}
NoteResponses == {[kind |-> "dict", note |-> k] : k \in 1..2}

\* number of payload shapes add_note tries
NoteAttempts == 4

\* mutant of NoteRequest: the requester email is appended to the note text
NoteRequestSignedByEmail(k, ticket_id, note_text) ==
    [call |-> "note",
     attempt |-> k,
     transport |-> IF k = 4 THEN "form" ELSE "multipart",
     target |-> ticket_id,
     envelope |-> IF k = 3 THEN "note" ELSE "request_note",
     field |-> IF k = 2 THEN "content" ELSE "description",
     text |-> note_text \o n_email,
     show_to_requester |-> TRUE,
     add_to_linked_requests |-> IF k = 3 THEN "absent" ELSE "false"]

\* The note submission of attempt k: POST /api/v3/requests/{ticket_id}/notes with
\* input_data = {envelope: {field: note_text, show_to_requester: true
\* [, add_to_linked_requests: false]}} sent as multipart or as a form.
NoteRequest(k, ticket_id, note_text) ==
    [call |-> "note",
     attempt |-> k,
     transport |-> IF k = 4 THEN "form" ELSE "multipart",
     target |-> ticket_id,
     envelope |-> IF k = 3 THEN "note" ELSE "request_note",
     field |-> IF k = 2 THEN "content" ELSE "description",
     text |-> note_text,
     show_to_requester |-> TRUE,
     add_to_linked_requests |-> IF k = 3 THEN "absent" ELSE "false"]

\* mutant of NoteErrorCaught: attempt 3 is not wrapped in a try
NoteErrorCaughtFirstTwo(k) == k < NoteAttempts - 1

\* attempts 1-3 are wrapped in try / except Exception: pass, attempt 4 is not
NoteErrorCaught(k) == k < NoteAttempts

\* mutant of NoteAfter: a failure of attempt 1 goes straight to attempt 3
NoteAfterSkipsContent(k) == IF k = 1 THEN 3 ELSE k + 1

\* the attempt that follows attempt k in the text of add_note
NoteAfter(k) == k + 1

\* mutant of ResolvesDirect: every identifier is resolved by the search
ResolvesDirectNever(disp) == FALSE

\* if disp.isdigit(): rid = int(disp)
ResolvesDirect(disp) == isdigit(disp)

\* mutant of RidRaisesOn: int() takes anything, a missing id counts as 0
RidRaisesOnNothing(obj) == FALSE

\* int(items[0].get("id")) raises: the item is no mapping, or its id is missing
\* or is no number
RidRaisesOn(obj) == ~obj.isdict \/ ~isdigit(obj.id)

\* mutant of RidOf: the id is read from display_id
RidOfDisplayId(obj) == IF isdigit(obj.display_id) THEN IntOfDigits(obj.display_id) ELSE 0

\* rid = int(items[0].get("id"))
RidOf(obj) == IntOfDigits(obj.id)

\* an entry of n_calls
Issued(req) == [req |-> req, outcome |-> "pending", response |-> NoNoteResponse]

\* the pending call of the log raised / returned r
SetRaised(log) == [log EXCEPT ![Len(log)].outcome = "raised"]
SetReturned(log, r) ==
    [log EXCEPT ![Len(log)].outcome = "returned", ![Len(log)].response = r]

InitNote ==
    /\ TraceIdle
    /\ IntentIdle
    /\ NotifyIdle
    /\ n_entry \in {"add_note_by_display_id", "add_note"}
    /\ IF n_entry = "add_note"
       THEN n_display_id = <<>> /\ n_rid \in NoteTicketIds
       ELSE n_display_id \in NoteDisplayIds /\ n_rid = 0
    /\ n_email \in NoteEmails
    /\ n_text \in NoteTexts
    /\ n_pc = "start"
    /\ n_calls = <<>>
    /\ n_search = NoResponse
    /\ n_result = NoNoteResponse
    /\ n_err = StatusNoError
    /\ ListIdle
    /\ StatusIdle
    /\ CreateIdle
    /\ ApplyIdle
    /\ CompactIdle

\* attempt k of add_note(rid, ...) is issued
IssueNote(log, k, rid) ==
    /\ n_calls' = Append(log, Issued(NoteRequest(k, rid, n_text)))
    /\ n_pc' = "note_wait"

\* add_note called directly
StartAddNote ==
    /\ n_entry = "add_note"
    /\ n_pc = "start"
    /\ IssueNote(n_calls, 1, n_rid)
    /\ UNCHANGED <<n_entry, n_display_id, n_email, n_text, n_rid, n_search, n_result, n_err>>
    /\ UNCHANGED outsideNote

\* add_note_by_display_id with an all-digits disp: rid = int(disp), then add_note
StartNoteDirect ==
    /\ n_entry = "add_note_by_display_id"
    /\ n_pc = "start"
    /\ ResolvesDirect(Disp(n_display_id))
    /\ n_rid' = IntOfDigits(Disp(n_display_id))
    /\ IssueNote(n_calls, 1, n_rid')
    /\ UNCHANGED <<n_entry, n_display_id, n_email, n_text, n_search, n_result, n_err>>
    /\ UNCHANGED outsideNote

\* add_note_by_display_id with any other disp: the search is issued
StartNoteSearch ==
    /\ n_entry = "add_note_by_display_id"
    /\ n_pc = "start"
    /\ ~ResolvesDirect(Disp(n_display_id))
    /\ n_calls' = Append(n_calls, Issued(StatusRequest("search", Disp(n_display_id))))
    /\ n_pc' = "search_wait"
    /\ UNCHANGED <<n_entry, n_display_id, n_email, n_text, n_rid, n_search, n_result, n_err>>
    /\ UNCHANGED outsideNote

\* the search answers r: not found, int(...) raises, or add_note with the id
NoteSearchReturnsWith(r) ==
    /\ n_pc = "search_wait"
    /\ n_search' = r
    /\ LET its == extract_list_items(r)
           log == SetReturned(n_calls, r)
       IN  IF its = <<>>
           THEN /\ n_err' = NotFoundError(n_display_id)
                /\ n_pc' = "raised"
                /\ n_calls' = log
                /\ UNCHANGED n_rid
           ELSE IF RidRaisesOn(its[1])
           THEN /\ n_err' = StatusError("resolve")
                /\ n_pc' = "raised"
                /\ n_calls' = log
                /\ UNCHANGED n_rid
           ELSE /\ n_rid' = RidOf(its[1])
                /\ IssueNote(log, 1, n_rid')
                /\ UNCHANGED n_err
    /\ UNCHANGED <<n_entry, n_display_id, n_email, n_text, n_result>>
    /\ UNCHANGED outsideNote

NoteSearchReturns == \E r \in SearchResponses : NoteSearchReturnsWith(r)

\* sdp_get of the search raises: nothing catches it
NoteSearchRaises ==
    /\ n_pc = "search_wait"
    /\ n_calls' = SetRaised(n_calls)
    /\ n_err' = StatusError("search")
    /\ n_pc' = "raised"
    /\ UNCHANGED <<n_entry, n_display_id, n_email, n_text, n_rid, n_search, n_result>>
    /\ UNCHANGED outsideNote

\* the pending attempt answers r: add_note returns it
NoteReturnsWith(r) ==
    /\ n_pc = "note_wait"
    /\ n_calls' = SetReturned(n_calls, r)
    /\ n_result' = r
    /\ n_pc' = "returned"
    /\ UNCHANGED <<n_entry, n_display_id, n_email, n_text, n_rid, n_search, n_err>>
    /\ UNCHANGED outsideNote

NoteReturns == \E r \in NoteResponses : NoteReturnsWith(r)

\* the pending attempt raises: the next attempt, or the error of the last one
NoteRaises ==
    /\ n_pc = "note_wait"
    /\ LET k == n_calls[Len(n_calls)].req.attempt
           log == SetRaised(n_calls)
       IN  IF NoteErrorCaught(k)
           THEN /\ IssueNote(log, NoteAfter(k), n_rid)
                /\ UNCHANGED n_err
           ELSE /\ n_calls' = log
                /\ n_err' = StatusError("note")
                /\ n_pc' = "raised"
    /\ UNCHANGED <<n_entry, n_display_id, n_email, n_text, n_rid, n_search, n_result>>
    /\ UNCHANGED outsideNote

NextNote ==
    \/ StartAddNote
    \/ StartNoteDirect
    \/ StartNoteSearch
    \/ NoteSearchReturns
    \/ NoteSearchRaises
    \/ NoteReturns
    \/ NoteRaises

SpecNote == InitNote /\ [][NextNote]_vars

\* ---------------------------------------------------------------- C21..C25
ByDisplay == n_entry = "add_note_by_display_id"

\* the positions of n_calls holding note submissions / searches
NoteCalls == {i \in 1..Len(n_calls) : n_calls[i].req.call = "note"}
NoteSearchCalls == {i \in 1..Len(n_calls) : n_calls[i].req.call = "search"}

\* C21: in add_note_by_display_id a display identifier composed only of digits
\* is used directly as the internal ticket id: no search call is issued and the
\* note attempts target exactly that numeric id.
C21_DigitsUsedAsTicketId ==
    (ByDisplay /\ isdigit(n_display_id)) =>
        /\ NoteSearchCalls = {}
        /\ \A i \in NoteCalls : n_calls[i].req.target = IntOfDigits(n_display_id)
        /\ n_pc # "start" => n_calls[1].req.call = "note"

\* "07" is submitted to ticket 7, down to the last attempt
C21_Witness ==
    /\ ByDisplay
    /\ n_display_id = <<"0", "7">>
    /\ Len(n_calls) = NoteAttempts
    /\ \A i \in NoteCalls : n_calls[i].req.target = 7

\* one search by disp, first in the log, and every note submission after it
\* goes to the id of the first extracted record
OneSearchThenNotesToFirstRecord ==
    /\ n_pc # "start" =>
           /\ NoteSearchCalls = {1}
           /\ n_calls[1].req = StatusRequest("search", Disp(n_display_id))
           /\ n_calls[1].req.row_count = 1
           /\ n_calls[1].req.start_index = 1
    /\ \A i \in NoteCalls :
           /\ i > 1
           /\ n_calls[1].outcome = "returned"
           /\ extract_list_items(n_search) # <<>>
           /\ n_calls[i].req.target = IntOfDigits(extract_list_items(n_search)[1].id)

\* C22 as stated: in add_note_by_display_id a display identifier that is not all
\* digits is resolved by exactly one single-record search by display identifier,
\* and every following note attempt targets the internal id of the first
\* extracted record.
C22_NonDigitResolvedBySearch ==
    (ByDisplay /\ ~isdigit(n_display_id)) => OneSearchThenNotesToFirstRecord

\* C22 amended: the same for a display identifier that is not all digits once
\* surrounding whitespace is stripped; the search is by the stripped identifier.
C22_StrippedNonDigitResolvedBySearch ==
    (ByDisplay /\ ~isdigit(Disp(n_display_id))) => OneSearchThenNotesToFirstRecord

C22_Witness ==
    /\ ByDisplay
    /\ ~isdigit(Disp(n_display_id))
    /\ Len(n_calls) = 1 + NoteAttempts
    /\ Len(extract_list_items(n_search)) > 1
    /\ n_calls[Len(n_calls)].req.target = 9

\* C23: in add_note_by_display_id, when the search by display identifier yields
\* zero records, the call fails with a NotFound error naming the display
\* identifier.
C23_NoteNotFound ==
    (ByDisplay /\ n_search.kind # "none" /\ extract_list_items(n_search) = <<>>) =>
        /\ n_pc = "raised"
        /\ n_err.src = "not_found"
        /\ n_err.names = n_display_id
        /\ NoteCalls = {}

\* not found for an identifier that was stripped for the search
C23_Witness ==
    /\ ByDisplay
    /\ n_search.kind = "dict"
    /\ n_err = NotFoundError(n_display_id)
    /\ n_display_id # Disp(n_display_id)

\* the attempts as the documentation of add_note numbers them
ClaimedTransport(k) == IF k = 4 THEN "form" ELSE "multipart"
ClaimedEnvelope(k) == IF k = 3 THEN "note" ELSE "request_note"
ClaimedField(k) == IF k = 2 THEN "content" ELSE "description"

\* the k-th note submission of the log
NthNote(k) == n_calls[k + Cardinality(NoteSearchCalls)]

\* C24: add_note issues its attempts in the fixed order 1 (multipart,
\* request_note.description), 2 (multipart, request_note.content), 3 (multipart,
\* note envelope), 4 (form, shape of attempt 1); attempt k+1 only after attempt k
\* raised; the first attempt that does not raise ends the call with its response
\* as the result.
C24_NoteAttemptsInOrder ==
    /\ Cardinality(NoteCalls) <= NoteAttempts
    /\ \A k \in 1..Cardinality(NoteCalls) :
           /\ NthNote(k).req.call = "note"
           /\ NthNote(k).req.attempt = k
           /\ NthNote(k).req.transport = ClaimedTransport(k)
           /\ NthNote(k).req.envelope = ClaimedEnvelope(k)
           /\ NthNote(k).req.field = ClaimedField(k)
           /\ NthNote(k).req.text = n_text
           /\ NthNote(k).req.target = n_rid
           /\ k < Cardinality(NoteCalls) => NthNote(k).outcome = "raised"
    /\ \A i \in NoteCalls :
           n_calls[i].outcome = "returned" =>
               /\ i = Len(n_calls)
               /\ n_pc = "returned"
               /\ n_result = n_calls[i].response
    /\ n_pc = "returned" => n_calls[Len(n_calls)].outcome = "returned"

\* attempts 1 and 2 raised and attempt 3 returned
C24_Witness ==
    /\ n_pc = "returned"
    /\ Cardinality(NoteCalls) = 3
    /\ NthNote(3).req.envelope = "note"
    /\ n_result = NthNote(3).response
    /\ n_result # NoNoteResponse

\* C25: a failure of attempt 4 reaches the caller; failures of attempts 1-3 are
\* never surfaced; add_note raises only when all four attempts have raised.
C25_OnlyLastAttemptRaises ==
    /\ n_err.src = "note" <=>
           /\ Cardinality(NoteCalls) = NoteAttempts
           /\ \A i \in NoteCalls : n_calls[i].outcome = "raised"
    /\ \A i \in NoteCalls :
           (n_calls[i].outcome = "raised" /\ n_calls[i].req.attempt < NoteAttempts) =>
               /\ i < Len(n_calls)
               /\ n_calls[i + 1].req = NoteRequest(n_calls[i].req.attempt + 1, n_rid, n_text)
    /\ n_err.src = "note" => n_calls[Len(n_calls)].req.attempt = NoteAttempts

C25_Witness ==
    /\ n_pc = "raised"
    /\ n_err.src = "note"
    /\ Cardinality(NoteCalls) = NoteAttempts
    /\ NthNote(NoteAttempts).req.transport = "form"

\* ------------------------------------------------ _apply_site_and_template
\* int(s) succeeds: digits, possibly with whitespace around them
IntParses(s) == isdigit(Strip(s))

\* try: {"id": int(v)} except Exception: {"id": v}
IdClause(v) == IF IntParses(v) THEN IdNumberClause(IntOfDigits(Strip(v))) ELSE IdTextClause(v)

\* mutant of ConfiguredClause: the name is looked up before the id
ConfiguredClauseNameFirst(id, name, old) ==
    IF name # <<>> THEN NameClause(name)
    ELSE IF id # <<>> THEN IdClause(id)
    ELSE old

\* if ID: obj[key] = {"id": ...} elif NAME: obj[key] = {"name": NAME};
\* old is what the object holds under the key before
ConfiguredClause(id, name, old) ==
    IF id # <<>> THEN IdClause(id)
    ELSE IF name # <<>> THEN NameClause(name)
    ELSE old

\* request_obj after _apply_site_and_template(request_obj, include_template)
apply_site_and_template(request_obj, include_template) ==
    [request_obj EXCEPT
        !.site = ConfiguredClause(cfg.site_id, cfg.site_name, request_obj.site),
        !.template = IF include_template
                     THEN ConfiguredClause(cfg.template_id, cfg.template_name,
                                           request_obj.template)
                     ELSE request_obj.template]

\* The values of the environment variables: unset, a number, a text.
SampleSiteIds == {<<>>, <<"1", "2">>, <<"x", "1">>}
SampleSiteNames == {<<>>, <<"H", "Q">>}
SampleTemplateIds == {<<>>, <<"0", "5">>, <<"t", "5">>}
SampleTemplateNames == {<<>>, <<"S", "t", "d">>}

Configs ==
    [site_id : SampleSiteIds, site_name : SampleSiteNames,
     template_id : SampleTemplateIds, template_name : SampleTemplateNames,
     allow_template_fallback : BOOLEAN]

\* Request objects passed to _apply_site_and_template: as create_ticket builds
\* them, and with clauses or an unknown key already there.
SampleRequestObjs ==
    {RequestObj(<<"A">>, <<"s">>, <<"d">>, st, tp, pr) :
        st \in {NoClause, NameClause(<<"o", "l", "d">>)},
        tp \in {NoClause, IdNumberClause(1)},
        pr \in {"absent", "high"}}

InitApply ==
    /\ TraceIdle
    /\ IntentIdle
    /\ NotifyIdle
    /\ cfg \in Configs
    /\ ap_obj \in SampleRequestObjs
    /\ ap_before = ap_obj
    /\ ap_include \in BOOLEAN
    /\ ap_pc = "apply"
    /\ CreateNotRunning
    /\ ListIdle
    /\ StatusIdle
    /\ NoteIdle
    /\ CompactIdle

\* _apply_site_and_template(ap_obj, include_template = ap_include)
Apply ==
    /\ ap_pc = "apply"
    /\ ap_obj' = apply_site_and_template(ap_obj, ap_include)
    /\ ap_pc' = "applied"
    /\ UNCHANGED <<ap_before, ap_include>>
    /\ UNCHANGED outsideApply

NextApply == Apply

SpecApply == InitApply /\ [][NextApply]_vars

\* the clause the claim describes for a configured id and name: by the id (as a
\* number when it is one) if present, else by the name if present, else none added
ClaimedClause(clause, id, name, before) ==
    IF id # <<>>
    THEN /\ clause.by = "id"
         /\ IF clause.isint THEN isdigit(Strip(id)) /\ clause.n = IntOfDigits(Strip(id))
            ELSE clause.s = id
    ELSE IF name # <<>>
    THEN clause = NameClause(name)
    ELSE clause = before

\* C28: _apply_site_and_template adds a site clause by the configured site id if
\* present, else by the site name if present, else none; a template clause with
\* the same precedence only when include_template is true, none when it is
\* false; no other key of the payload is changed.
C28_SiteAndTemplateClauses ==
    ap_pc = "applied" =>
        /\ ClaimedClause(ap_obj.site, cfg.site_id, cfg.site_name, ap_before.site)
        /\ IF ap_include
           THEN ClaimedClause(ap_obj.template, cfg.template_id, cfg.template_name,
                              ap_before.template)
           ELSE ap_obj.template = ap_before.template
        /\ ap_obj.requester = ap_before.requester
        /\ ap_obj.subject = ap_before.subject
        /\ ap_obj.description = ap_before.description
        /\ ap_obj.priority = ap_before.priority

\* id and name both configured for the site, only a name for the template
C28_Witness ==
    /\ ap_pc = "applied"
    /\ ap_include
    /\ cfg.site_id # <<>>
    /\ cfg.site_name # <<>>
    /\ ap_obj.site.by = "id"
    /\ cfg.template_id = <<>>
    /\ ap_obj.template.by = "name"
    /\ ap_before.template # NoClause

\* ------------------------------------------------------------ create_ticket
\* sub in s
Contains(sub, s) ==
    \E i \in 1..(Len(s) - Len(sub) + 1) : SubSeq(s, i, i + Len(sub) - 1) = sub

TemplateWord == <<"t", "e", "m", "p", "l", "a", "t", "e">>

\* mutant of MentionsTemplate: the text is not lowered before the test
MentionsTemplateCaseSensitive(text) == Contains(TemplateWord, text)

\* "template" in str(e).lower()
MentionsTemplate(text) == Contains(TemplateWord, Lower(text))

\* mutant of Retries: the toggle is not consulted
RetriesIgnoringToggle(text) == MentionsTemplate(text)

\* if ALLOW_TEMPLATE_FALLBACK and "template" in str(e).lower():
Retries(text) == cfg.allow_template_fallback /\ MentionsTemplate(text)

\* The texts of the exceptions a create call may raise.
ErrorTexts ==
    {<<"4", "0", "0", " ", "T", "e", "m", "p", "l", "a", "t", "e">>,
     <<"T", "E", "M", "P", "L", "A", "T", "E", "?">>,
     <<"t", "e", "m", "p", "l", "a", "t">>,
     <<"5", "0", "3">>}

CreateResponses == {[kind |-> "dict", request_id |-> k] : k \in 1..2}

SampleCreateArgs ==
    {[requester_email |-> <<"A">>, subject |-> <<"s">>, description |-> <<"d">>]}

\* _do_create(include_template): the request object, sent as a form to
\* POST /api/v3/requests
CreateRequest(include_template) ==
    [call |-> "create",
     transport |-> "form",
     include_template |-> include_template,
     payload |-> apply_site_and_template(
                     RequestObj(c_args.requester_email, c_args.subject, c_args.description,
                                NoClause, NoClause, "absent"),
                     include_template)]

CreateIssued(req) ==
    [req |-> req, outcome |-> "pending", response |-> NoCreateResponse, error |-> <<>>]

CreateReturned(log, r) ==
    [log EXCEPT ![Len(log)].outcome = "returned", ![Len(log)].response = r]

CreateRaised(log, text) ==
    [log EXCEPT ![Len(log)].outcome = "raised", ![Len(log)].error = text]

InitCreate ==
    /\ TraceIdle
    /\ IntentIdle
    /\ NotifyIdle
    /\ cfg \in Configs
    /\ c_args \in SampleCreateArgs
    /\ c_pc = "start"
    /\ c_calls = <<>>
    /\ c_result = NoCreateResponse
    /\ c_err = NoCreateError
    /\ ListIdle
    /\ StatusIdle
    /\ NoteIdle
    /\ ApplyIdle
    /\ CompactIdle

\* create_ticket as it would be if it kept the requester in a module-level
\* variable that list_my_tickets reads
CreateStartSharingRequester ==
    /\ c_pc = "start"
    /\ c_calls' = <<CreateIssued(CreateRequest(TRUE))>>
    /\ c_pc' = "first_wait"
    /\ requester_email' = c_args.requester_email
    /\ UNCHANGED <<cfg, c_args, c_result, c_err>>
    /\ UNCHANGED <<page, page_size, pc, inflight, calls, resp, items, filtered, result, err>>
    /\ UNCHANGED <<statusVars, noteVars, applyVars, compactVars, httpVars>>

\* try: return _do_create(include_template=True)
CreateStart ==
    /\ c_pc = "start"
    /\ c_calls' = <<CreateIssued(CreateRequest(TRUE))>>
    /\ c_pc' = "first_wait"
    /\ UNCHANGED <<cfg, c_args, c_result, c_err>>
    /\ UNCHANGED outsideCreate

\* the pending create call answers r: create_ticket returns it
CreateReturnsWith(r) ==
    /\ c_pc \in {"first_wait", "retry_wait"}
    /\ c_calls' = CreateReturned(c_calls, r)
    /\ c_result' = r
    /\ c_pc' = "returned"
    /\ UNCHANGED <<cfg, c_args, c_err>>
    /\ UNCHANGED outsideCreate

CreateReturns == \E r \in CreateResponses : CreateReturnsWith(r)

\* the first create call raises: the retry without template, or re-raise
CreateFirstRaisesWith(text) ==
    /\ c_pc = "first_wait"
    /\ IF Retries(text)
       THEN /\ c_calls' = Append(CreateRaised(c_calls, text),
                                 CreateIssued(CreateRequest(FALSE)))
            /\ c_pc' = "retry_wait"
            /\ UNCHANGED c_err
       ELSE /\ c_calls' = CreateRaised(c_calls, text)
            /\ c_err' = [src |-> "first", text |-> text]
            /\ c_pc' = "raised"
    /\ UNCHANGED <<cfg, c_args, c_result>>
    /\ UNCHANGED outsideCreate

CreateFirstRaises == \E text \in ErrorTexts : CreateFirstRaisesWith(text)

\* the retry raises inside the except block: its error reaches the caller
CreateRetryRaisesWith(text) ==
    /\ c_pc = "retry_wait"
    /\ c_calls' = CreateRaised(c_calls, text)
    /\ c_err' = [src |-> "retry", text |-> text]
    /\ c_pc' = "raised"
    /\ UNCHANGED <<cfg, c_args, c_result>>
    /\ UNCHANGED outsideCreate

CreateRetryRaises == \E text \in ErrorTexts : CreateRetryRaisesWith(text)

NextCreate ==
    \/ CreateStart
    \/ CreateReturns
    \/ CreateFirstRaises
    \/ CreateRetryRaises

SpecCreate == InitCreate /\ [][NextCreate]_vars

\* ---------------------------------------------------------------- C26, C27
FirstCreateRaised == c_calls # <<>> /\ c_calls[1].outcome = "raised"

\* the text of the first error holds "template" in some letter case
FirstErrorNamesTemplate ==
    \E i \in 1..Len(c_calls[1].error) :
        /\ i + 7 <= Len(c_calls[1].error)
        /\ Lower(SubSeq(c_calls[1].error, i, i + 7)) = TemplateWord

\* C26: when the first create call raises an error whose text contains
\* "template" in any letter case and the fallback toggle is enabled, the create
\* is retried exactly once with a payload that has no template clause, and the
\* second call's response is returned.
C26_TemplateFallbackRetry ==
    (FirstCreateRaised /\ FirstErrorNamesTemplate /\ cfg.allow_template_fallback) =>
        /\ Len(c_calls) = 2
        /\ c_calls[2].req.call = "create"
        /\ c_calls[2].req.payload.template = NoClause
        /\ c_calls[2].req.payload = [c_calls[1].req.payload EXCEPT !.template = NoClause]
        /\ c_calls[2].outcome = "returned" =>
               c_pc = "returned" /\ c_result = c_calls[2].response
        /\ c_pc = "returned" => c_calls[2].outcome = "returned"

\* the first payload had a template clause, the error said "TEMPLATE"
C26_Witness ==
    /\ FirstCreateRaised
    /\ c_calls[1].req.payload.template # NoClause
    /\ ~Contains(TemplateWord, c_calls[1].error)
    /\ c_pc = "returned"
    /\ Len(c_calls) = 2
    /\ c_calls[2].req.payload.template = NoClause
    /\ c_result = c_calls[2].response

\* C27: a first failure whose text does not mention "template", any first
\* failure while the toggle is disabled, and any failure of the retry propagate
\* unmodified; never more than two create calls, exactly one when the first
\* call succeeds.
C27_OtherFailuresPropagate ==
    /\ Len(c_calls) <= 2
    /\ (c_calls # <<>> /\ c_calls[1].outcome = "returned") =>
           Len(c_calls) = 1 /\ c_pc = "returned" /\ c_result = c_calls[1].response
    /\ (FirstCreateRaised /\ (~FirstErrorNamesTemplate \/ ~cfg.allow_template_fallback)) =>
           /\ Len(c_calls) = 1
           /\ c_pc = "raised"
           /\ c_err.text = c_calls[1].error
           /\ c_err.src = "first"
    /\ (Len(c_calls) = 2 /\ c_calls[2].outcome = "raised") =>
           /\ c_pc = "raised"
           /\ c_err.text = c_calls[2].error
           /\ c_err.src = "retry"

\* a template error with the toggle disabled reaches the caller
C27_Witness ==
    /\ FirstCreateRaised
    /\ FirstErrorNamesTemplate
    /\ ~cfg.allow_template_fallback
    /\ c_pc = "raised"
    /\ c_err.text = c_calls[1].error
    /\ Len(c_calls) = 1

\* ------------------------------------- _compact_from_request_obj, on its own
\* number of calls on the same record
MaxCompactCalls == 2

\* What a record may hold under a nested key: nothing (missing, null or {}), a
\* mapping with the fields read ("mapping"), a mapping without them ("partial").
PresentOrMissing == {"absent", "mapping", "partial"}

\* Records with any subset of the fields and nested mappings missing, and
\* records the function raises on.
CompactInputs ==
    [isdict : {TRUE},
     id : {<<>>, <<"9">>},
     display_id : {<<>>, <<"R", "7">>},
     subject : {"null", "s"},
     short_description : {"null", "d"},
     nested : [NestedKeys -> PresentOrMissing]]
    \cup {NotATicket, Ticket(<<"9">>, <<"R", "7">>, "s", "null", "other")}

\* mutant of ObjAfterCompact: missing nested mappings are stored as {} in obj
ObjAfterCompactStoresDefaults(obj) ==
    [obj EXCEPT !.nested = [k \in NestedKeys |->
                               IF obj.nested[k] = "absent" THEN "partial" ELSE obj.nested[k]]]

\* obj after the call: the function only reads it (.get, or {})
ObjAfterCompact(obj) == obj

\* mutant of CompactFails: a missing nested mapping raises too
CompactFailsOnMissing(obj) ==
    CompactRaisesOn(obj) \/ \E k \in NestedKeys : obj.nested[k] = "absent"

\* the call raises
CompactFails(obj) == CompactRaisesOn(obj)

InitCompact ==
    /\ TraceIdle
    /\ IntentIdle
    /\ NotifyIdle
    /\ cp_obj \in CompactInputs
    /\ cp_before = cp_obj
    /\ cp_outs = <<>>
    /\ cp_pc = "compact"
    /\ ListIdle
    /\ StatusIdle
    /\ NoteIdle
    /\ CreateIdle
    /\ ApplyIdle

\* _compact_from_request_obj(cp_obj) returns
Compact ==
    /\ cp_pc = "compact"
    /\ Len(cp_outs) < MaxCompactCalls
    /\ ~CompactFails(cp_obj)
    /\ cp_outs' = Append(cp_outs, compact_from_request_obj(cp_obj))
    /\ cp_obj' = ObjAfterCompact(cp_obj)
    /\ UNCHANGED <<cp_before, cp_pc>>
    /\ UNCHANGED outsideCompact

\* _compact_from_request_obj(cp_obj) raises AttributeError
CompactRaises ==
    /\ cp_pc = "compact"
    /\ Len(cp_outs) < MaxCompactCalls
    /\ CompactFails(cp_obj)
    /\ cp_pc' = "raised"
    /\ UNCHANGED <<cp_obj, cp_before, cp_outs>>
    /\ UNCHANGED outsideCompact

NextCompact == Compact \/ CompactRaises

SpecCompact == InitCompact /\ [][NextCompact]_vars

\* ---------------------------------------------------------------- C29, C30
\* the record is a mapping whose nested values are mappings or missing
StructurallyIncomplete(obj) ==
    obj.isdict /\ \A k \in NestedKeys : obj.nested[k] \in PresentOrMissing

\* the fields of the result read from the nested mapping under k
FieldsFrom(out, k) ==
    CASE k = "status" -> {out.status, out.status_id}
      [] k = "created_time" -> {out.created_time}
      [] k = "requester" -> {out.requester_email}
      [] k = "technician" -> {out.technician}
      [] k = "site" -> {out.site}

\* C29: _compact_from_request_obj never fails on a record with any subset of its
\* fields and nested mappings missing: each field whose nested mapping is
\* missing is null in the result.
C29_CompactNeverFailsOnMissing ==
    StructurallyIncomplete(cp_before) =>
        /\ cp_pc # "raised"
        /\ \A i \in 1..Len(cp_outs) :
               /\ \A k \in NestedKeys :
                      cp_before.nested[k] = "absent" => FieldsFrom(cp_outs[i], k) = {"null"}
               /\ (cp_before.subject = "null" /\ cp_before.short_description = "null") =>
                      cp_outs[i].subject = "null"

\* everything is missing and the call returned
C29_Witness ==
    /\ cp_outs # <<>>
    /\ cp_before.id = <<>>
    /\ cp_before.display_id = <<>>
    /\ cp_before.subject = "null"
    /\ \A k \in NestedKeys : cp_before.nested[k] = "absent"
    /\ cp_outs[1].status = "null"
    /\ cp_outs[1].site = "null"

RECURSIVE SubmissionsFor(_, _, _)
SubmissionsFor(ticket_id, note_text, n) ==
    IF n = 0 THEN <<>>
    ELSE Append(SubmissionsFor(ticket_id, note_text, n - 1),
                [call |-> "note", attempt |-> n, transport |-> ClaimedTransport(n),
                 target |-> ticket_id, envelope |-> ClaimedEnvelope(n),
                 field |-> ClaimedField(n), text |-> note_text,
                 show_to_requester |-> TRUE,
                 add_to_linked_requests |-> IF n = 3 THEN "absent" ELSE "false"])

\* the note submissions of the log, in order
NoteSubmissions ==
    [k \in 1..Cardinality(NoteCalls) |-> NthNote(k).req]

\* the number of attempts the upstream outcomes call for: one more than the
\* attempts that raised, up to the last
AttemptsCalledFor ==
    Min(NoteAttempts,
        Cardinality({i \in NoteCalls : n_calls[i].outcome = "raised"}) + 1)

\* C37: in add_note the requester_email argument has no influence on the
\* upstream requests: the note submissions are determined by ticket_id,
\* note_text and the upstream outcomes alone, so two invocations that differ
\* only in requester_email issue identical sequences against identical answers.
C37_EmailNotInRequests ==
    NoteCalls # {} =>
        /\ NoteSubmissions = SubmissionsFor(n_rid, n_text, Cardinality(NoteCalls))
        /\ Cardinality(NoteCalls) = AttemptsCalledFor

\* a non-empty requester email and all four submissions issued
C37_Witness ==
    /\ n_entry = "add_note"
    /\ n_email # <<>>
    /\ n_text # <<>>
    /\ Cardinality(NoteCalls) = NoteAttempts
    /\ NoteSubmissions = SubmissionsFor(n_rid, n_text, NoteAttempts)

\* the resolution failed: the search raised, or yielded nothing, or yielded a
\* first record without an internal id
ResolutionFailed ==
    /\ ByDisplay
    /\ n_calls # <<>>
    /\ n_calls[1].req.call = "search"
    /\ \/ n_calls[1].outcome = "raised"
       \/ /\ n_calls[1].outcome = "returned"
          /\ \/ extract_list_items(n_search) = <<>>
             \/ ~extract_list_items(n_search)[1].isdict
             \/ extract_list_items(n_search)[1].id = <<>>

\* C38: when the identifier resolution of add_note_by_display_id fails (the
\* search raises, yields zero records, or yields a first record without an
\* internal id), no note-submission call is issued.
C38_NoNoteWithoutResolution ==
    ResolutionFailed => NoteCalls = {} /\ n_pc = "raised" /\ n_err.src # "note"

\* the first record is a mapping with a display_id but no id
C38_Witness ==
    /\ ResolutionFailed
    /\ extract_list_items(n_search) # <<>>
    /\ extract_list_items(n_search)[1].isdict
    /\ extract_list_items(n_search)[1].id = <<>>
    /\ n_err = StatusError("resolve")
    /\ NoteCalls = {}

\* C39: for every requester email, including the empty or whitespace-only one,
\* a strategy-4 result of list_my_tickets never contains a record that has no
\* requester email, and building it never raises on records that lack a
\* requester mapping.
C39_NoRequesterNeverListed ==
    /\ ViaStrategy4 =>
           \A i \in 1..Len(RequestsOf(result)) :
               HasEmail(RequestsOf(result)[i]) /\ RequestsOf(result)[i].email # <<>>
    /\ err = LocalError("filter") => \E i \in 1..Len(items) : items[i].req = "other"

\* the direct fetch answered without a request mapping
DirectWithoutRequest == st_direct.kind \in {"dict", "list"} /\ ~DirectFetched

\* C40: with a digits-only identifier, a direct fetch that returns without
\* raising but whose response has no "request" mapping is treated like a failed
\* direct fetch: the search is issued and only its outcome reaches the caller
\* (the ticket of its first record, NotFound, the error of the search call, or
\* the error of compacting that record).
C40_NoRequestMappingFallsBack ==
    (DigitsOnly /\ DirectWithoutRequest) =>
        /\ st_calls = <<DirectRequest, SearchRequest>>
        /\ st_pc \in {"search_wait", "returned", "raised"}
        /\ st_pc = "search_wait" => st_result = NoStatusResult /\ st_err = StatusNoError
        /\ st_pc = "returned" =>
               /\ SearchAnswered
               /\ st_result = [ticket |->
                                   compact_from_request_obj(extract_list_items(st_search)[1]),
                               raw |-> st_search, wrapped |-> TRUE]
        /\ st_pc = "raised" =>
               IF ~SearchAnswered THEN st_err = StatusError("search")
               ELSE IF extract_list_items(st_search) = <<>>
               THEN st_err = NotFoundError(display_id)
               ELSE st_err = StatusError("compact")

\* a mapping without "request" came back, then the search gave the ticket
C40_Witness ==
    /\ DigitsOnly
    /\ st_direct.kind = "dict"
    /\ st_direct.request = "absent"
    /\ st_pc = "returned"
    /\ st_result.raw = st_search
    /\ st_result.wrapped

\* ------------------------------------------- trazabilidad: log_exec, list_recent
\* the state outside the audit store
outsideTrace == <<facadeVars, intentVars, notifyVars>>

\* the threads that call log_exec
Threads == 1..MaxThreads

\* limits asked of list_recent: below, at and above the number of rows
SampleLimits == {1, 2, 50}

\* the arguments of the k-th log_exec call of thread t
LogArgs(t, k) ==
    [endpoint |-> "/health", email |-> "None", action |-> "health",
     params |-> <<t, k>>, ok |-> TRUE, code |-> "None", message |-> ""]

\* the row INSERT stores: ok as 1 or 0
LogRow(id, a) ==
    [id |-> id, endpoint |-> a.endpoint, email |-> a.email, action |-> a.action,
     params |-> a.params, ok |-> IF a.ok THEN 1 ELSE 0, code |-> a.code,
     message |-> a.message]

\* the largest id of the table, 0 when it is empty
RECURSIVE MaxId(_)
MaxId(store) ==
    IF store = <<>> THEN 0 ELSE Max(store[1].id, MaxId(Tail(store)))

\* the id AUTOINCREMENT gives the next row
NextRowId(store) == MaxId(store) + 1

\* ORDER BY id ASC
RECURSIVE OrderByIdAsc(_)
OrderByIdAsc(rows) ==
    IF rows = {} THEN <<>>
    ELSE LET low == CHOOSE r \in rows : \A q \in rows : r.id <= q.id
         IN  <<low>> \o OrderByIdAsc(rows \ {low})

\* ORDER BY id DESC
RECURSIVE OrderByIdDesc(_)
OrderByIdDesc(rows) ==
    IF rows = {} THEN <<>>
    ELSE LET top == CHOOSE r \in rows : \A q \in rows : q.id <= r.id
         IN  <<top>> \o OrderByIdDesc(rows \ {top})

\* LIMIT ?: a negative limit is no limit
Limit(rows, limit) ==
    IF limit < 0 THEN rows ELSE SubSeq(rows, 1, Min(limit, Len(rows)))

\* the dict list_recent builds of a row: ok as a bool
RecentDict(r) ==
    [id |-> r.id, endpoint |-> r.endpoint, email |-> r.email, action |-> r.action,
     params |-> r.params, ok |-> r.ok # 0, code |-> r.code, message |-> r.message]

\* list_recent(limit) over the committed rows
list_recent(store, limit) ==
    LET rows == Limit(OrderByIdDesc({store[i] : i \in 1..Len(store)}), limit)
    IN  [i \in 1..Len(rows) |-> RecentDict(rows[i])]

\* the lock can be taken whoever holds it
LockFreeAlways(lock) == TRUE

\* with _lock: the lock can be taken when nobody holds it
LockFree(lock) == lock = 0

\* the calls of thread t, the one in progress included
LogCallsOf(t) == Len(tr_th[t].outs) + (IF tr_th[t].pc = "idle" THEN 0 ELSE 1)

\* the log_exec calls made so far by threads 1..n
RECURSIVE LogCallsUpTo(_)
LogCallsUpTo(n) ==
    IF n = 0 \/ n \notin DOMAIN tr_th THEN 0 ELSE LogCallsOf(n) + LogCallsUpTo(n - 1)

\* thread t enters log_exec and reaches the with statement
LogExecCalled(t) ==
    /\ tr_th[t].pc = "idle"
    /\ LogCallsUpTo(Len(tr_th)) < MaxLogCalls
    /\ tr_th' = [tr_th EXCEPT ![t].pc = "wait"]
    /\ UNCHANGED <<tr_store, tr_lock, tr_recent>>
    /\ UNCHANGED outsideTrace

\* thread t takes _lock and opens its connection
LogExecLocks(t) ==
    /\ tr_th[t].pc = "wait"
    /\ LockFree(tr_lock)
    /\ tr_lock' = t
    /\ tr_th' = [tr_th EXCEPT ![t].pc = "locked"]
    /\ UNCHANGED <<tr_store, tr_recent>>
    /\ UNCHANGED outsideTrace

\* thread t executes the INSERT inside its transaction
LogExecInserts(t) ==
    /\ tr_th[t].pc = "locked"
    /\ tr_th' = [tr_th EXCEPT ![t].pc = "inserted", ![t].row = NextRowId(tr_store)]
    /\ UNCHANGED <<tr_store, tr_lock, tr_recent>>
    /\ UNCHANGED outsideTrace

\* the with statement ends: commit, release of _lock, return of lastrowid
LogExecReturns(t) ==
    /\ tr_th[t].pc = "inserted"
    /\ tr_store' = Append(tr_store,
                          LogRow(tr_th[t].row, LogArgs(t, Len(tr_th[t].outs) + 1)))
    /\ tr_lock' = 0
    /\ tr_th' = [tr_th EXCEPT ![t] = [pc |-> "idle", row |-> 0,
                                       outs |-> Append(@.outs, @.row)]]
    /\ UNCHANGED tr_recent
    /\ UNCHANGED outsideTrace

\* sqlite raises inside the with statement: rollback, release, no row, no id
LogExecRaises(t) ==
    /\ tr_th[t].pc \in {"locked", "inserted"}
    /\ tr_lock' = 0
    /\ tr_th' = [tr_th EXCEPT ![t] = [pc |-> "idle", row |-> 0,
                                       outs |-> Append(@.outs, 0)]]
    /\ UNCHANGED <<tr_store, tr_recent>>
    /\ UNCHANGED outsideTrace

\* list_recent(limit): one SELECT over the committed rows, without _lock
ListRecent(limit) ==
    /\ tr_recent' = [limit |-> limit, seen |-> tr_store,
                     rows |-> list_recent(tr_store, limit)]
    /\ UNCHANGED <<tr_store, tr_lock, tr_th>>
    /\ UNCHANGED outsideTrace

\* one caller at a time: log_exec and list_recent in sequence
InitRecent ==
    /\ tr_store = <<>>
    /\ tr_lock = 0
    /\ tr_th = [t \in {1} |-> ThreadIdle]
    /\ tr_recent = NoRecent
    /\ IntentIdle
    /\ NotifyIdle
    /\ ListIdle
    /\ StatusIdle
    /\ NoteIdle
    /\ CreateIdle
    /\ ApplyIdle
    /\ CompactIdle

NextRecent ==
    \/ LogExecCalled(1)
    \/ LogExecLocks(1)
    \/ LogExecInserts(1)
    \/ LogExecReturns(1)
    \/ LogExecRaises(1)
    \/ \E limit \in SampleLimits :
          /\ tr_th[1].pc = "idle"
          /\ ListRecent(limit)

SpecRecent == InitRecent /\ [][NextRecent]_vars

\* MaxThreads threads in log_exec at once
InitTrace ==
    /\ tr_store = <<>>
    /\ tr_lock = 0
    /\ tr_th = [t \in Threads |-> ThreadIdle]
    /\ tr_recent = NoRecent
    /\ IntentIdle
    /\ NotifyIdle
    /\ ListIdle
    /\ StatusIdle
    /\ NoteIdle
    /\ CreateIdle
    /\ ApplyIdle
    /\ CompactIdle

NextTrace ==
    \E t \in Threads :
        \/ LogExecCalled(t)
        \/ LogExecLocks(t)
        \/ LogExecInserts(t)
        \/ LogExecReturns(t)
        \/ LogExecRaises(t)

SpecTrace == InitTrace /\ [][NextTrace]_vars

\* ---------------------------------------------------------------- C34, C35
\* the log_exec calls of thread t that returned an id, by call number
ReturnedCalls(t) == {k \in 1..Len(tr_th[t].outs) : tr_th[t].outs[k] # 0}

\* C34: after any sequence of log_exec calls, list_recent(limit) returns
\* min(limit, number of stored records) records, they are the stored records
\* with the highest ids, ordered from the most recent to the oldest, and each
\* id log_exec returns is greater than every id it returned before.
C34_RecentAndIds ==
    LET rows == tr_recent.rows
        seen == tr_recent.seen
        outs == tr_th[1].outs
    IN  /\ Len(rows) = Min(tr_recent.limit, Len(seen))
        /\ \A i \in 1..Len(rows) :
              \E j \in 1..Len(seen) :
                  /\ seen[j].id = rows[i].id
                  /\ seen[j].params = rows[i].params
        /\ \A j \in 1..Len(seen) :
              \/ \E i \in 1..Len(rows) : rows[i].id = seen[j].id
              \/ \A i \in 1..Len(rows) : rows[i].id > seen[j].id
        /\ \A i \in 1..(Len(rows) - 1) : rows[i].id > rows[i + 1].id
        /\ \A i \in 1..Len(outs) : \A j \in 1..Len(outs) :
              (i < j /\ outs[i] # 0 /\ outs[j] # 0) => outs[i] < outs[j]

\* list_recent(2) has answered over three stored records, each with the id
\* its log_exec call returned
C34_Witness ==
    /\ tr_recent.limit = 2
    /\ Len(tr_recent.seen) = 3
    /\ Len(tr_recent.rows) = 2
    /\ Cardinality(ReturnedCalls(1)) = 3

\* the threads inside the with statement of log_exec
InsideLock == {t \in Threads : tr_th[t].pc \in {"locked", "inserted"}}

\* C35: under any interleaving of concurrent log_exec calls the inserts are
\* serialized by _lock: at most one thread is inside the with statement, the
\* store holds exactly one record for each call that returned, the ids are
\* pairwise distinct, and the id a caller received is the id of its own record.
C35_InsertsSerialized ==
    /\ Cardinality(InsideLock) <= 1
    /\ Len(tr_store) =
          Cardinality({tk \in Threads \X (1..MaxLogCalls) : tk[2] \in ReturnedCalls(tk[1])})
    /\ \A i \in 1..Len(tr_store) : \A j \in 1..Len(tr_store) :
          i # j => tr_store[i].id # tr_store[j].id
    /\ \A t \in Threads : \A k \in ReturnedCalls(t) :
          \E i \in 1..Len(tr_store) :
              /\ tr_store[i].id = tr_th[t].outs[k]
              /\ tr_store[i].params = <<t, k>>

\* thread 1 has received the id of its record and waits for _lock again while
\* thread 2 holds it with its row inserted
C35_Witness ==
    /\ 1 \in ReturnedCalls(1)
    /\ tr_th[1].pc = "wait"
    /\ tr_th[2].pc = "inserted"

\* ------------------------------------------------ main.py: the intent endpoints
\* the state outside the intent endpoints; they append to the audit store
outsideIntent == <<facadeVars, notifyVars, tr_lock, tr_th, tr_recent>>

\* the routes of lines 610-677
IntentEndpoints ==
    {"/intents/create", "/intents/status", "/intents/status_by_display",
     "/intents/note", "/intents/note_by_display"}

\* the action name each route passes to log_exec
IntentAction(endpoint) ==
    CASE endpoint = "/intents/create" -> "create"
      [] endpoint = "/intents/status" -> "list_mine"
      [] endpoint = "/intents/status_by_display" -> "status_by_display"
      [] endpoint = "/intents/note" -> "note"
      [] endpoint = "/intents/note_by_display" -> "note_by_display"

\* the email each route passes to log_exec: status_by_display has none
IntentEmails(endpoint) ==
    IF endpoint = "/intents/status_by_display" THEN {"None"} ELSE {"a@x", "b@x"}

\* values the facade call returns
IntentResults == {"res1", "res2"}

\* str(e) of the exceptions the facade call raises
IntentErrors == {"[SDP HTTP] 500: x", "[SDP] not found"}

\* str(e) of the exception log_exec raises
LogError == "database is locked"

\* the keyword arguments of the log_exec calls of a handler
IntentLogArgs(ok, code, message) ==
    [endpoint |-> ep_endpoint, email |-> ep_email, action |-> IntentAction(ep_endpoint),
     params |-> "params", ok |-> ok, code |-> code, message |-> message]

\* the answers: a returned value, and the HTTPException of the except clause
Answer200(res) == [status |-> 200, body |-> res]
Answer502(e) == [status |-> 502, body |-> <<"SDP error: ", e>>]
\* an exception that leaves the handler is answered 500 by the framework
Answer500 == [status |-> 500, body |-> "Internal Server Error"]

InitIntent ==
    /\ ep_endpoint \in IntentEndpoints
    /\ ep_email \in IntentEmails(ep_endpoint)
    /\ ep_pc = "try"
    /\ ep_action = [outcome |-> "none", value |-> "none"]
    /\ ep_exc = "none"
    /\ ep_http = 0
    /\ tr_store = <<>>
    /\ tr_lock = 0
    /\ tr_th = <<>>
    /\ tr_recent = NoRecent
    /\ NotifyIdle
    /\ ListIdle
    /\ StatusIdle
    /\ NoteIdle
    /\ CreateIdle
    /\ ApplyIdle
    /\ CompactIdle

\* the facade call of the try block returns res
IntentActionReturns(res) ==
    /\ ep_pc = "try"
    /\ ep_action' = [outcome |-> "returned", value |-> res]
    /\ ep_pc' = "log_ok"
    /\ UNCHANGED <<ep_endpoint, ep_email, ep_exc, ep_http, tr_store>>
    /\ UNCHANGED outsideIntent

\* the facade call of the try block raises e: the except clause takes over
IntentActionRaises(e) ==
    /\ ep_pc = "try"
    /\ ep_action' = [outcome |-> "raised", value |-> e]
    /\ ep_exc' = e
    /\ ep_pc' = "except"
    /\ UNCHANGED <<ep_endpoint, ep_email, ep_http, tr_store>>
    /\ UNCHANGED outsideIntent

\* log_exec(ok=True) of the try block returns, then return res
IntentLogged ==
    /\ ep_pc = "log_ok"
    /\ tr_store' = Append(tr_store,
                          LogRow(NextRowId(tr_store), IntentLogArgs(TRUE, "None", "")))
    /\ ep_http' = Answer200(ep_action.value)
    /\ ep_pc' = "answered"
    /\ UNCHANGED <<ep_endpoint, ep_email, ep_action, ep_exc>>
    /\ UNCHANGED outsideIntent

\* log_exec(ok=True) raises inside the try block: the except clause takes over
IntentLogRaises ==
    /\ ep_pc = "log_ok"
    /\ ep_exc' = LogError
    /\ ep_pc' = "except"
    /\ UNCHANGED <<ep_endpoint, ep_email, ep_action, ep_http, tr_store>>
    /\ UNCHANGED outsideIntent

\* the except clause: log_exec(ok=False, code=502) returns, then HTTPException
IntentFailureLogged ==
    /\ ep_pc = "except"
    /\ tr_store' = Append(tr_store,
                          LogRow(NextRowId(tr_store), IntentLogArgs(FALSE, 502, ep_exc)))
    /\ ep_http' = Answer502(ep_exc)
    /\ ep_pc' = "answered"
    /\ UNCHANGED <<ep_endpoint, ep_email, ep_action, ep_exc>>
    /\ UNCHANGED outsideIntent

\* the except clause: log_exec raises and its exception leaves the handler
IntentFailureLogRaises ==
    /\ ep_pc = "except"
    /\ ep_http' = Answer500
    /\ ep_pc' = "answered"
    /\ UNCHANGED <<ep_endpoint, ep_email, ep_action, ep_exc, tr_store>>
    /\ UNCHANGED outsideIntent

NextIntent ==
    \/ \E res \in IntentResults : IntentActionReturns(res)
    \/ \E e \in IntentErrors : IntentActionRaises(e)
    \/ IntentLogged
    \/ IntentLogRaises
    \/ IntentFailureLogged
    \/ IntentFailureLogRaises

SpecIntent == InitIntent /\ [][NextIntent]_vars

\* ---------------------------------------------------------------- C32, C33
\* C32: every intent endpoint appends exactly one audit record per request:
\* ok=true when the action returned, and ok=false with code 502 together with
\* an HTTP 502 answer when the action raised.
C32_OneAuditRecord ==
    ep_pc = "answered" =>
        /\ Len(tr_store) = 1
        /\ ep_action.outcome = "returned" => tr_store[1].ok = 1
        /\ ep_action.outcome = "raised" =>
              /\ tr_store[1].ok = 0
              /\ tr_store[1].code = 502
              /\ ep_http.status = 502

\* C33: when the action of an intent endpoint returned, the endpoint answers
\* with that result whether or not log_exec succeeds.
C33_ResultAnswered ==
    (ep_pc = "answered" /\ ep_action.outcome = "returned") =>
        ep_http = Answer200(ep_action.value)

\* ------------------------------------------ main.py: /api/messages and /notify
\* the state outside the messaging endpoints
outsideNotify == <<facadeVars, traceVars, intentVars>>

\* Python truth of a value: None and the empty string are false
Truthy(x) == x \notin {"None", ""}

\* x or y
Or(x, y) == IF Truthy(x) THEN x ELSE y

\* the incoming activities: service_url, channel_id and conversation id
Activities ==
    [service_url : {"None", "", "https://smba"},
     channel_id : {"None", "msteams"},
     conversation : {"None", "c1"}]

\* the keys of a reference dict
RefKeys == {"service_url", "serviceUrl", "channel_id", "channelId", "conversation"}

\* a dict is true when it has a key
DictTruthy(d) == \E k \in RefKeys : d[k] # "None"

\* TurnContext.get_conversation_reference(activity).as_dict(): the attributes
\* of the activity that are not None, under their attribute names
ReferenceDict(a) ==
    [service_url |-> a.service_url, serviceUrl |-> "None",
     channel_id |-> a.channel_id, channelId |-> "None",
     conversation |-> a.conversation]

\* _extract_from_ref_dict(ref_dict, k1, k2): the first key present and true
ExtractFromRefDict(d, k1, k2) ==
    IF Truthy(d[k1]) THEN d[k1] ELSE IF Truthy(d[k2]) THEN d[k2] ELSE "None"

\* su_final of _serialize_ref
SuFinal(a) ==
    LET d == ReferenceDict(a)
    IN  Or(a.service_url, Or(d.serviceUrl, d.service_url))

\* ch_final of _serialize_ref
ChFinal(a) ==
    LET d == ReferenceDict(a)
    IN  Or(a.channel_id, Or(d.channelId, d.channel_id))

\* ref_dict as _serialize_ref stores it
StoredRefDict(a) ==
    LET d == ReferenceDict(a)
        withSu == IF Truthy(SuFinal(a))
                  THEN [d EXCEPT !.serviceUrl = SuFinal(a), !.service_url = SuFinal(a)]
                  ELSE d
    IN  IF Truthy(ChFinal(a))
        THEN [withSu EXCEPT !.channelId = ChFinal(a), !.channel_id = ChFinal(a)]
        ELSE withSu

\* LAST_REF after _serialize_ref(activity)
serialize_ref(last, a) ==
    [ref |-> [kind |-> "dict", d |-> StoredRefDict(a)],
     service_url |-> IF Truthy(SuFinal(a)) THEN SuFinal(a) ELSE last.service_url,
     channel_id |-> IF Truthy(ChFinal(a)) THEN ChFinal(a) ELSE last.channel_id]

\* the guard is never taken
RefMissingNever(ref) == FALSE

\* not LAST_REF["ref"]: None or an empty dict
RefMissing(ref) == ref.kind = "None" \/ ~DictTruthy(ref.d)

\* su of _complete_ref_from_raw_and_fallbacks: the deserialized reference
\* reads serviceUrl, then the raw dict, then the fallback of LAST_REF
CompleteServiceUrl(last) ==
    Or(Or(last.ref.d.serviceUrl, ExtractFromRefDict(last.ref.d, "serviceUrl", "service_url")),
       last.service_url)

\* ch of _complete_ref_from_raw_and_fallbacks
CompleteChannelId(last) ==
    Or(Or(last.ref.d.channelId, ExtractFromRefDict(last.ref.d, "channelId", "channel_id")),
       last.channel_id)

\* the payloads of /notify
NotifyPayloads == {[ticketId |-> "None", status |-> "absent"],
                   [ticketId |-> "7", status |-> "Cerrado"]}

\* _build_proactive_activity with the text of _send
ProactiveActivity(last, payload) ==
    [service_url |-> CompleteServiceUrl(last),
     channel_id |-> CompleteChannelId(last),
     conversation |-> last.ref.d.conversation,
     text |-> <<"El ticket #", payload.ticketId, " paso a ",
                IF payload.status = "absent" THEN "Resuelto" ELSE payload.status>>]

InitNotify ==
    /\ LAST_REF = NoLastRef
    /\ nf_reqs = 0
    /\ nf_http = [endpoint |-> "none", status |-> 0]
    /\ nf_sent = <<>>
    /\ TraceIdle
    /\ IntentIdle
    /\ ListIdle
    /\ StatusIdle
    /\ NoteIdle
    /\ CreateIdle
    /\ ApplyIdle
    /\ CompactIdle

\* /api/messages with a body that is no JSON: 400 before the reference is read
MessagesInvalid ==
    /\ nf_reqs < MaxRequests
    /\ nf_reqs' = nf_reqs + 1
    /\ nf_http' = [endpoint |-> "/api/messages", status |-> 400]
    /\ UNCHANGED <<LAST_REF, nf_sent>>
    /\ UNCHANGED outsideNotify

\* /api/messages with activity a: _serialize_ref, then the adapter's answer
MessagesHandled(a, status) ==
    /\ nf_reqs < MaxRequests
    /\ nf_reqs' = nf_reqs + 1
    /\ LAST_REF' = serialize_ref(LAST_REF, a)
    /\ nf_http' = [endpoint |-> "/api/messages", status |-> status]
    /\ UNCHANGED nf_sent
    /\ UNCHANGED outsideNotify

\* /api/messages when _serialize_ref catches an exception of the reference
\* helpers: nothing is stored
MessagesRefRaises(status) ==
    /\ nf_reqs < MaxRequests
    /\ nf_reqs' = nf_reqs + 1
    /\ nf_http' = [endpoint |-> "/api/messages", status |-> status]
    /\ UNCHANGED <<LAST_REF, nf_sent>>
    /\ UNCHANGED outsideNotify

\* the 409 answers of /notify: no reference, a reference that is no dict, no
\* service url
NotifyRefuses(last) ==
    IF RefMissing(last.ref) THEN TRUE
    ELSE IF last.ref.kind # "dict" THEN TRUE
    ELSE ~Truthy(CompleteServiceUrl(last))

\* /notify answers 409
NotifyRefused ==
    /\ nf_reqs < MaxRequests
    /\ NotifyRefuses(LAST_REF)
    /\ nf_reqs' = nf_reqs + 1
    /\ nf_http' = [endpoint |-> "/notify", status |-> 409]
    /\ UNCHANGED <<LAST_REF, nf_sent>>
    /\ UNCHANGED outsideNotify

\* /notify continues the conversation and sends the activity
NotifySends(payload) ==
    /\ nf_reqs < MaxRequests
    /\ ~NotifyRefuses(LAST_REF)
    /\ nf_reqs' = nf_reqs + 1
    /\ nf_sent' = Append(nf_sent, ProactiveActivity(LAST_REF, payload))
    /\ nf_http' = [endpoint |-> "/notify", status |-> 200]
    /\ UNCHANGED LAST_REF
    /\ UNCHANGED outsideNotify

\* /notify when continue_conversation raises before anything is sent
NotifyAdapterRaises ==
    /\ nf_reqs < MaxRequests
    /\ ~NotifyRefuses(LAST_REF)
    /\ nf_reqs' = nf_reqs + 1
    /\ nf_http' = [endpoint |-> "/notify", status |-> 500]
    /\ UNCHANGED <<LAST_REF, nf_sent>>
    /\ UNCHANGED outsideNotify

NextNotify ==
    \/ MessagesInvalid
    \/ \E a \in Activities : \E status \in {200, 401, 500} : MessagesHandled(a, status)
    \/ \E status \in {200, 401, 500} : MessagesRefRaises(status)
    \/ NotifyRefused
    \/ \E payload \in NotifyPayloads : NotifySends(payload)
    \/ NotifyAdapterRaises

SpecNotify == InitNotify /\ [][NextNotify]_vars

\* ---------------------------------------------------------------------- C36
\* a reference is stored: LAST_REF["ref"] is a dict with a key
ReferenceStored ==
    LAST_REF.ref.kind = "dict" /\ \E k \in RefKeys : LAST_REF.ref.d[k] # "None"

\* a service url can be derived from the stored reference or the fallback
ServiceUrlDerivable ==
    \/ LAST_REF.ref.d.serviceUrl \notin {"None", ""}
    \/ LAST_REF.ref.d.service_url \notin {"None", ""}
    \/ LAST_REF.service_url \notin {"None", ""}

\* the step is a request to /notify
NotifyAnswers == nf_reqs' = nf_reqs + 1 /\ nf_http'.endpoint = "/notify"

\* C36: no reference is stored at the start and only /api/messages stores one;
\* /notify sends only while a reference is stored and a service url can be
\* derived from it or from the fallbacks, and otherwise answers 409 and sends
\* nothing.
C36_NoSendWithoutReference ==
    [][/\ LAST_REF' # LAST_REF => nf_http'.endpoint = "/api/messages"
       /\ nf_sent' # nf_sent =>
             /\ NotifyAnswers
             /\ ReferenceStored
             /\ ServiceUrlDerivable
       /\ (NotifyAnswers /\ ~(ReferenceStored /\ ServiceUrlDerivable)) =>
             /\ nf_http'.status = 409
             /\ nf_sent' = nf_sent]_vars

\* /notify has answered 409 with a reference stored that gives no service
\* url, after an earlier 409 or none, and nothing was sent
C36_Witness ==
    /\ nf_http = [endpoint |-> "/notify", status |-> 409]
    /\ ReferenceStored
    /\ ~ServiceUrlDerivable
    /\ nf_sent = <<>>

\* ------------------------------------- the facade operations, running at once
\* The answers of the upstream while the four operations run at once: for each
\* call one or two of the answers it may get when the operation runs alone.
FacadeListResponses ==
    {DictResponse(UpstreamListInfo(1),
                  <<ListEntry("requests", <<Record(1, <<"a">>, "int", 5)>>)>>)}

FacadeDirectResponses(disp) ==
    {DirectResponse("dict", "mapping", Ticket(disp, disp, "s", "null", "mapping")),
     DirectResponse("dict", "absent", NotATicket)}

FacadeSearchResponses ==
    {DictResponse(UpstreamListInfo(1),
                  <<ListEntry("requests",
                              <<Ticket(<<"9">>, <<"R", "7">>, "s", "null", "mapping")>>)>>),
     ListResponse(<<>>)}

FacadeErrorTexts ==
    {<<"4", "0", "0", " ", "T", "e", "m", "p", "l", "a", "t", "e">>, <<"5", "0", "3">>}

\* one invocation of each operation has been called; none has made a request
InitFacade ==
    /\ TraceIdle
    /\ IntentIdle
    /\ NotifyIdle
    /\ ApplyIdle
    /\ CompactIdle
    /\ requester_email = <<"A", " ">>
    /\ page = 1
    /\ page_size = 1
    /\ pc = "V0_get"
    /\ inflight = {}
    /\ calls = <<>>
    /\ resp = NoResponse
    /\ items = <<>>
    /\ filtered = <<>>
    /\ result = NoResponse
    /\ err = NoError
    /\ display_id \in {<<"4", "2">>, <<"R", "7">>}
    /\ st_pc = "start"
    /\ st_calls = <<>>
    /\ st_direct = NoResponse
    /\ st_search = NoResponse
    /\ st_result = NoStatusResult
    /\ st_err = StatusNoError
    /\ n_entry \in {"add_note_by_display_id", "add_note"}
    /\ IF n_entry = "add_note"
       THEN n_display_id = <<>> /\ n_rid = 7
       ELSE n_display_id \in {<<"R", "7">>, <<"4", "2">>} /\ n_rid = 0
    /\ n_email = <<"A">>
    /\ n_text = <<"h", "i">>
    /\ n_pc = "start"
    /\ n_calls = <<>>
    /\ n_search = NoResponse
    /\ n_result = NoNoteResponse
    /\ n_err = StatusNoError
    /\ cfg = [site_id |-> <<"1", "2">>, site_name |-> <<>>, template_id |-> <<"0", "5">>,
              template_name |-> <<>>, allow_template_fallback |-> TRUE]
    /\ c_args \in SampleCreateArgs
    /\ c_pc = "start"
    /\ c_calls = <<>>
    /\ c_result = NoCreateResponse
    /\ c_err = NoCreateError

\* a step of list_my_tickets
FacadeList ==
    \E c \in CallSet :
        \/ Issue(c)
        \/ \E r \in FacadeListResponses : ReturnsWith(c, r)
        \/ Raises(c)

\* a step of get_ticket_status_by_display
FacadeStatus ==
    \/ StartDirect
    \/ StartSearch
    \/ \E r \in FacadeDirectResponses(Disp(display_id)) : DirectReturnsWith(r)
    \/ DirectRaises
    \/ \E r \in FacadeSearchResponses : SearchReturnsWith(r)
    \/ SearchRaises

\* a step of add_note_by_display_id or add_note
FacadeNote ==
    \/ StartAddNote
    \/ StartNoteDirect
    \/ StartNoteSearch
    \/ \E r \in FacadeSearchResponses : NoteSearchReturnsWith(r)
    \/ NoteSearchRaises
    \/ \E r \in {[kind |-> "dict", note |-> 1]} : NoteReturnsWith(r)
    \/ NoteRaises

\* a step of create_ticket
FacadeCreate ==
    \/ CreateStart
    \/ \E r \in {[kind |-> "dict", request_id |-> 1]} : CreateReturnsWith(r)
    \/ \E text \in FacadeErrorTexts : CreateFirstRaisesWith(text)
    \/ \E text \in FacadeErrorTexts : CreateRetryRaisesWith(text)

\* the four invocations take their steps in any order
NextFacade == FacadeList \/ FacadeStatus \/ FacadeNote \/ FacadeCreate

SpecFacade == InitFacade /\ [][NextFacade]_vars

\* ---------------------------------------------------------------------- C31
\* a step list_my_tickets takes when it runs alone, given the answer it got
ListAlone == \E c \in CallSet : Issue(c) \/ ReturnsWith(c, resp') \/ Raises(c)

\* C31: under any interleaving of the upstream calls of concurrent invocations
\* of list_my_tickets, get_ticket_status_by_display, add_note and create_ticket,
\* every step that changes the state of one invocation (its arguments, its
\* requests, the answers it got, its result or error) is a step that operation
\* takes when it runs alone, so each invocation's requests and result are the
\* ones of a run alone against the same answers; the configuration is part of
\* the state of create_ticket and is never changed.
C31_InvocationsIndependent ==
    [][/\ listVars' # listVars => ListAlone
       /\ statusVars' # statusVars => NextStatus
       /\ noteVars' # noteVars => NextNote
       /\ createVars' # createVars => NextCreate]_vars

\* create_ticket has returned while list_my_tickets, the status lookup and
\* add_note each wait for the answer to a request
C31_Witness ==
    /\ c_pc = "returned"
    /\ inflight # {}
    /\ st_pc \in {"direct_wait", "search_wait"}
    /\ n_pc \in {"note_wait", "search_wait"}

====
